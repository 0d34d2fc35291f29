---------------------------- MODULE QueryProofs -----------------------------
(***************************************************************************)
(* What Comparisons says of two and of three values, for every range of    *)
(* the types and every conversion to doubles that keeps the order; what    *)
(* Queries says of every statement and every condition, over every set of  *)
(* expressions; and what Lexer says of every text, for every set of        *)
(* keywords.                                                               *)
(***************************************************************************)
EXTENDS Queries, Lexer, FiniteSetTheorems, SequenceTheorems, TLAPS

(* A value has a type and a number of it.                                  *)
LEMMA ValueFacts ==
  ASSUME NEW a \in Values
  PROVE  /\ a.type \in Types
         /\ a.n \in Number[a.type] /\ a.n \in Numbers /\ a.n \in Int
         /\ Double[a.n] \in Int
<1>1. PICK t \in Types : a \in {[type |-> t, n |-> n] : n \in Number[t]}
  BY DEF Values
<1>2. a.type = t /\ a.n \in Number[t]
  BY <1>1
<1>3. Number[t] \subseteq Int /\ Number[t] \subseteq Numbers
  BY <1>1, ComparisonsAssumption DEF Numbers
<1> QED
  BY <1>1, <1>2, <1>3, ComparisonsAssumption

(* What every narrow integer has, and every floating point number.         *)
LEMMA NarrowFacts ==
  ASSUME NEW a \in Values, a.type \in Integral \ {"int64"}
  PROVE  -Exact < a.n /\ a.n < Exact /\ Double[a.n] = a.n
<1>1. a.n \in Number[a.type] /\ a.n \in Numbers /\ a.n \in Int
  BY ValueFacts
<1>2. -Exact < a.n /\ a.n < Exact
  BY <1>1, ComparisonsAssumption
<1>3. Exact \in Nat
  BY ComparisonsAssumption
<1>4. -Exact <= a.n /\ a.n <= Exact
  BY <1>1, <1>2, <1>3
<1> QED
  BY <1>1, <1>2, <1>4, ComparisonsAssumption

(* A floating point number is a double.                                    *)
LEMMA FloatingFacts ==
  ASSUME NEW a \in Values, a.type \in Floating
  PROVE  Double[a.n] = a.n
BY ValueFacts, ComparisonsAssumption

(* A number whose double lies within what doubles hold exactly is that     *)
(* double: beyond, conversion does not come back.                          *)
LEMMA ExactDouble ==
  ASSUME NEW m \in Numbers, -Exact < Double[m], Double[m] < Exact
  PROVE  Double[m] = m
<1>1. /\ m \in Int /\ Double[m] \in Int /\ Exact \in Nat
      /\ -Exact \in Numbers /\ Exact \in Numbers
  <2>1. \A t \in Types : Number[t] \subseteq Int
    BY ComparisonsAssumption
  <2>2. m \in Int
    BY <2>1 DEF Numbers
  <2> QED
    BY <2>2, ComparisonsAssumption
<1>2. Double[Exact] = Exact /\ Double[-Exact] = -Exact
  <2>1. -Exact <= Exact
    BY <1>1
  <2> QED
    BY <1>1, <2>1, ComparisonsAssumption
<1>3. m <= Exact
  <2>1. CASE Exact <= m
    <3>1. Double[Exact] <= Double[m]
      BY <1>1, <2>1, ComparisonsAssumption
    <3> QED
      BY <1>1, <1>2, <3>1
  <2> QED
    BY <1>1, <2>1
<1>4. -Exact <= m
  <2>1. CASE m <= -Exact
    <3>1. Double[m] <= Double[-Exact]
      BY <1>1, <2>1, ComparisonsAssumption
    <3> QED
      BY <1>1, <1>2, <3>1
  <2> QED
    BY <1>1, <2>1
<1> QED
  BY <1>1, <1>3, <1>4, ComparisonsAssumption

(* Of two integers of different types, one is narrow, and then the doubles *)
(* are equal only when the integers are.                                   *)
LEMMA IntegersEqualAsDoubles ==
  ASSUME NEW a \in Values, NEW b \in Values, BothOf(a, b, Integral), a.type # b.type
  PROVE  Double[a.n] = Double[b.n] <=> a.n = b.n
<1>1. \A x, y \in Values :
        y.type \in Integral \ {"int64"} /\ Double[x.n] = Double[y.n] => x.n = y.n
  <2> SUFFICES ASSUME NEW x \in Values, NEW y \in Values,
                      y.type \in Integral \ {"int64"}, Double[x.n] = Double[y.n]
               PROVE  x.n = y.n
    OBVIOUS
  <2>1. -Exact < Double[x.n] /\ Double[x.n] < Exact /\ Double[y.n] = y.n
    BY NarrowFacts
  <2>2. x.n \in Numbers
    BY ValueFacts
  <2>3. Double[x.n] = x.n
    BY <2>1, <2>2, ExactDouble
  <2> QED
    BY <2>1, <2>3
<1>2. a.type \in Integral \ {"int64"} \/ b.type \in Integral \ {"int64"}
  BY DEF BothOf
<1> QED
  BY <1>1, <1>2

(* The sign of a difference is the order of the two.                       *)
LEMMA SignFacts ==
  ASSUME NEW m \in Int, NEW n \in Int
  PROVE  /\ Sign(n - m) = -Sign(m - n)
         /\ Sign(m - n) = 0 <=> m = n
         /\ Sign(m - n) <= 0 <=> m <= n
BY DEF Sign

(* What is compared are integers, halves being counted.                    *)
LEMMA KeyType ==
  ASSUME NEW a \in Values, NEW b \in Values
  PROVE  Key(a, b) \in Int
BY ValueFacts DEF Key

(* Of any two values: equality and order, which the evaluator computes     *)
(* apart and in different types, say the same, and neither depends on the  *)
(* order of the operands.                                                  *)
THEOREM OrderAlwaysAgrees ==
  ASSUME NEW a \in Values, NEW b \in Values
  PROVE  OrderAgrees(a, b)
<1>1. Equal(a, b) = Equal(b, a)
  <2>1. Equal(a, b) <=> Equal(b, a)
    BY DEF Equal, BothOf
  <2>2. Equal(a, b) \in BOOLEAN /\ Equal(b, a) \in BOOLEAN
    BY DEF Equal, BothOf
  <2> QED
    BY <2>1, <2>2
<1>2. Comparable(a, b) = Comparable(b, a)
  <2>1. Comparable(a, b) <=> Comparable(b, a)
    BY DEF Comparable, BothOf, Arithmetic, Integral, Floating
  <2>2. Comparable(a, b) \in BOOLEAN /\ Comparable(b, a) \in BOOLEAN
    BY DEF Comparable, BothOf
  <2> QED
    BY <2>1, <2>2
<1>3. Compare(b, a) = -Compare(a, b)
  BY KeyType, SignFacts DEF Compare
<1>4. ASSUME Comparable(a, b)
      PROVE  Equal(a, b) <=> Compare(a, b) = 0
  <2>1. Compare(a, b) = 0 <=> Key(a, b) = Key(b, a)
    BY KeyType, SignFacts DEF Compare
  <2>2. CASE a.type = b.type
    BY <2>1, <2>2 DEF Equal, Key
  <2>3. CASE a.type # b.type /\ BothOf(a, b, Integral)
    <3>1. Key(a, b) = a.n /\ Key(b, a) = b.n
      BY <2>3 DEF Key, BothOf
    <3>2. Equal(a, b) <=> Double[a.n] = Double[b.n]
      BY <2>3 DEF Equal, BothOf, Arithmetic
    <3> QED
      BY <2>1, <2>3, <3>1, <3>2, IntegersEqualAsDoubles
  <2>4. CASE a.type # b.type /\ ~BothOf(a, b, Integral)
    <3>1. Key(a, b) = Double[a.n] /\ Key(b, a) = Double[b.n]
      BY <2>4 DEF Key, BothOf
    <3>2. Equal(a, b) <=> Double[a.n] = Double[b.n]
      BY <1>4, <2>4 DEF Equal, Comparable
    <3> QED
      BY <2>1, <3>1, <3>2
  <2> QED
    BY <2>2, <2>3, <2>4
<1> QED
  BY <1>1, <1>2, <1>3, <1>4 DEF OrderAgrees

(* Of any three values: what is ordered pair by pair is ordered end to     *)
(* end, unless a 64-bit integer is rounded and a floating point number is  *)
(* among them.                                                             *)
THEOREM OrderAlwaysChains ==
  ASSUME NEW a \in Values, NEW b \in Values, NEW c \in Values
  PROVE  OrderChains(a, b, c)
<1> SUFFICES ASSUME ~(\E x, y \in {a, b, c} : Rounds(x) /\ y.type \in Floating),
                    Comparable(a, b), Comparable(b, c),
                    Compare(a, b) <= 0, Compare(b, c) <= 0
             PROVE  Comparable(a, c) /\ Compare(a, c) <= 0
  BY DEF OrderChains, Orders
<1> DEFINE S == {a, b, c}
<1>1. Comparable(a, c)
  BY DEF Comparable, BothOf
<1>2. \A x, y \in S : Compare(x, y) <= 0 <=> Key(x, y) <= Key(y, x)
  <2> SUFFICES ASSUME NEW x \in S, NEW y \in S
               PROVE  Compare(x, y) <= 0 <=> Key(x, y) <= Key(y, x)
    OBVIOUS
  <2>1. Key(x, y) \in Int /\ Key(y, x) \in Int
    BY KeyType
  <2> QED
    BY <2>1, SignFacts DEF Compare
<1>3. \A x \in S : x.type \in Types /\ x.n \in Int
  BY ValueFacts
<1>4. \A x, y \in S : Comparable(x, y) => Key(x, y) = x.n
  <2> SUFFICES ASSUME NEW x \in S, NEW y \in S, Comparable(x, y)
               PROVE  Key(x, y) = x.n
    OBVIOUS
  <2>1. CASE x.type = y.type \/ BothOf(x, y, Integral)
    BY <2>1 DEF Key
  <2>2. CASE ~(x.type = y.type \/ BothOf(x, y, Integral))
    <3>1. Key(x, y) = Double[x.n]
      BY <2>2 DEF Key
    <3>2. BothOf(x, y, Arithmetic) /\ (x.type \in Floating \/ y.type \in Floating)
      BY <2>2 DEF Comparable, BothOf, Arithmetic
    <3>3. CASE x.type \in Floating
      BY <3>1, <3>3, FloatingFacts
    <3>4. CASE x.type = "int64"
      BY <3>1, <3>2, <3>4 DEF Rounds, Floating
    <3>5. CASE x.type \in Integral \ {"int64"}
      BY <3>1, <3>5, NarrowFacts
    <3> QED
      BY <3>2, <3>3, <3>4, <3>5 DEF BothOf, Arithmetic
  <2> QED
    BY <2>1, <2>2
<1>5. Comparable(b, a) /\ Comparable(c, b) /\ Comparable(c, a)
  BY <1>1, OrderAlwaysAgrees DEF OrderAgrees
<1>6. a.n <= b.n /\ b.n <= c.n
  BY <1>2, <1>4, <1>5
<1>7. a.n <= c.n
  BY <1>3, <1>6
<1> QED
  BY <1>1, <1>2, <1>4, <1>5, <1>7

-----------------------------------------------------------------------------
(* Trees.                                                                  *)

(* Every nonempty set of naturals has a least element. Induction over the  *)
(* naturals is a use of it: a claim that fails somewhere fails somewhere   *)
(* first.                                                                  *)
LEMMA LeastExists ==
  ASSUME NEW T \in SUBSET Nat, T # {} PROVE \E x \in T : \A y \in T : x <= y
<1> DEFINE Below(x) == T \cap (0..x)
           U == {Below(x) : x \in T}
<1>1. ASSUME NEW x \in T PROVE Below(x) \in FiniteSubsetsOf(T)
  <2>1. IsFiniteSet(0..x)
    BY FS_Interval
  <2>2. IsFiniteSet(Below(x))
    BY <2>1, FS_Intersection
  <2> QED
    BY <2>2 DEF FiniteSubsetsOf
<1>2. U \subseteq FiniteSubsetsOf(T) /\ U # {}
  BY <1>1
<1>3. PICK u \in U : \A v \in U : <<v, u>> \notin StrictSubsetOrdering(T)
  <2> HIDE DEF U
  <2> QED
    BY <1>2, FS_StrictSubsetOrderingWellFounded, WFMin
<1>4. PICK x \in T : u = Below(x)
  OBVIOUS
<1>5. ASSUME NEW y \in T, y < x PROVE FALSE
  <2>1. Below(y) \subseteq u /\ x \in u /\ x \notin Below(y)
    BY <1>4, <1>5
  <2>3. Below(y) \in U
    OBVIOUS
  <2>2. <<Below(y), u>> \in StrictSubsetOrdering(T)
    BY <2>1, <1>4 DEF StrictSubsetOrdering
  <2> QED
    BY <2>2, <2>3, <1>3
<1> QED
  BY <1>5

(* What an expression is.                                                  *)
LEMMA TreeFacts ==
  ASSUME NEW e \in Trees
  PROVE  /\ e.parts \in Seq(Trees) /\ Len(e.parts) \in Nat /\ DOMAIN e.parts = 1..Len(e.parts)
         /\ \A i \in DOMAIN e.parts : e.parts[i] \in Trees /\ Height[e.parts[i]] < Height[e]
         /\ e.kind \in PhysicalKinds /\ e.column \in Nat /\ e.value \in Values
         /\ e.kind \in {"column", "constant"} => DOMAIN e.parts = {}
<1>1. e \in [kind : PhysicalKinds, parts : Seq(Trees), column : Nat,
             value : Values, op : STRING, aggregate : BOOLEAN, negated : BOOLEAN]
  BY ExpressionsAssumption
<1>2. e.parts \in Seq(Trees) /\ e.kind \in PhysicalKinds /\ e.column \in Nat /\ e.value \in Values
  BY <1>1
<1>3. Len(e.parts) \in Nat /\ DOMAIN e.parts = 1..Len(e.parts)
  BY <1>2
<1>4. \A i \in DOMAIN e.parts : e.parts[i] \in Trees
  BY <1>2
<1>5. \A i \in DOMAIN e.parts : Height[e.parts[i]] < Height[e]
  BY ExpressionsAssumption
<1>6. e.kind = "column" => e.parts = <<>>
  BY ExpressionsAssumption DEF Column, Node
<1>7. e.kind = "constant" => e.parts = <<>>
  BY ExpressionsAssumption DEF Constant, Node
<1> QED
  BY <1>2, <1>3, <1>4, <1>5, <1>6, <1>7

(* Induction over trees: what fails of some fails of one, of whose parts   *)
(* it does not fail.                                                       *)
LEMMA LowestTree ==
  ASSUME NEW T \in SUBSET Trees, T # {}
  PROVE  \E e \in T : \A i \in DOMAIN e.parts : e.parts[i] \notin T
<1> DEFINE H == {Height[e] : e \in T}
<1>1. H \in SUBSET Nat /\ H # {}
  BY ExpressionsAssumption
<1>2. PICK n \in H : \A m \in H : n <= m
  <2> HIDE DEF H
  <2> QED
    BY <1>1, LeastExists
<1>3. PICK e \in T : n = Height[e]
  OBVIOUS
<1>4. ASSUME NEW i \in DOMAIN e.parts, e.parts[i] \in T PROVE FALSE
  <2>1. Height[e.parts[i]] < Height[e] /\ Height[e.parts[i]] \in H
    BY <1>4, TreeFacts
  <2>2. Height[e.parts[i]] \in Nat /\ Height[e] \in Nat
    BY <1>1, <1>3, <2>1
  <2> HIDE DEF H
  <2> QED
    BY <1>2, <1>3, <2>1, <2>2
<1> QED
  BY <1>4

(* A tree that is built anew from its parts, each built anew, is the same. *)
LEMMA TreeOfParts ==
  ASSUME NEW e \in Trees, NEW f, \A i \in DOMAIN e.parts : f[e.parts[i]] = e.parts[i]
  PROVE  [e EXCEPT !.parts = [i \in DOMAIN @ |-> f[@[i]]]] = e
<1>1. e \in [kind : PhysicalKinds, parts : Seq(Trees), column : Nat,
             value : Values, op : STRING, aggregate : BOOLEAN, negated : BOOLEAN]
  BY ExpressionsAssumption
<1>2. [i \in DOMAIN e.parts |-> f[e.parts[i]]] = e.parts
  <2>1. e.parts = [i \in DOMAIN e.parts |-> e.parts[i]]
    BY TreeFacts
  <2> QED
    BY <2>1
<1>3. [e EXCEPT !.parts = e.parts] = e
  BY <1>1
<1> QED
  BY <1>2, <1>3

Rebuilt(f) == [x \in Trees |-> [x EXCEPT !.parts = [i \in DOMAIN @ |-> f[@[i]]]]]

(* There is one such function, and it changes nothing.                     *)
LEMMA RebuiltIsSame ==
  /\ \E f : f = Rebuilt(f)
  /\ \A f : f = Rebuilt(f) => \A e \in Trees : f[e] = e
<1> DEFINE id == [x \in Trees |-> x]
<1>1. id = Rebuilt(id)
  <2>1. ASSUME NEW x \in Trees PROVE [x EXCEPT !.parts = [i \in DOMAIN @ |-> id[@[i]]]] = x
    <3>1. \A i \in DOMAIN x.parts : id[x.parts[i]] = x.parts[i]
      BY TreeFacts
    <3> HIDE DEF id
    <3> QED
      BY <3>1, TreeOfParts
  <2> QED
    BY <2>1 DEF Rebuilt
<1>2. ASSUME NEW f, f = Rebuilt(f) PROVE \A e \in Trees : f[e] = e
  <2> DEFINE T == {e \in Trees : f[e] # e}
  <2> SUFFICES ASSUME T # {} PROVE FALSE
    OBVIOUS
  <2>1. PICK e \in T : \A i \in DOMAIN e.parts : e.parts[i] \notin T
    BY LowestTree
  <2>2. \A i \in DOMAIN e.parts : f[e.parts[i]] = e.parts[i]
    BY <2>1, TreeFacts
  <2>3. f[e] = [e EXCEPT !.parts = [i \in DOMAIN @ |-> f[@[i]]]]
    <3>1. Rebuilt(f)[e] = [e EXCEPT !.parts = [i \in DOMAIN @ |-> f[@[i]]]]
      BY DEF Rebuilt
    <3> QED
      BY <1>2, <3>1
  <2> QED
    BY <2>1, <2>2, <2>3, TreeOfParts
<1> QED
  BY <1>1, <1>2

(* clone and copy_expression copy every part, with nothing changed.        *)
LEMMA CopiesAreSame == ASSUME NEW e \in Trees PROVE Clone(e) = e /\ Copy(e) = e
<1> DEFINE f == CHOOSE g : g = Rebuilt(g)
<1>1. f = Rebuilt(f)
  BY RebuiltIsSame
<1>2. Clone(e) = f[e] /\ Copy(e) = f[e]
  BY DEF Clone, Copy, Rebuilt
<1> QED
  BY <1>1, <1>2, RebuiltIsSame

(* The nodes of e: every set that holds e, and the parts of what it holds, *)
(* holds these.                                                            *)
Closed(T) == \A x \in T : \A i \in DOMAIN x.parts : x.parts[i] \in T
Below(e) == {x \in Trees : \A T \in SUBSET Trees : e \in T /\ Closed(T) => x \in T}

(* What is below an expression has all its parts.                          *)
LEMMA BelowClosed ==
  ASSUME NEW e \in Trees
  PROVE  Below(e) \in SUBSET Trees /\ e \in Below(e) /\ Closed(Below(e))
<1>1. ASSUME NEW x \in Below(e), NEW i \in DOMAIN x.parts PROVE x.parts[i] \in Below(e)
  <2>1. x \in Trees /\ x.parts[i] \in Trees
    BY <1>1, TreeFacts DEF Below
  <2>2. ASSUME NEW T \in SUBSET Trees, e \in T, Closed(T) PROVE x.parts[i] \in T
    <3>1. x \in T
      BY <1>1, <2>2 DEF Below
    <3> QED
      BY <2>2, <3>1 DEF Closed
  <2> QED
    BY <2>1, <2>2 DEF Below
<1>2. Below(e) \in SUBSET Trees /\ e \in Below(e)
  BY DEF Below
<1> QED
  BY <1>1, <1>2 DEF Closed

(* It is the expression and what is below its parts.                       *)
LEMMA BelowIs ==
  ASSUME NEW e \in Trees
  PROVE  Below(e) = {e} \cup UNION {Below(e.parts[i]) : i \in DOMAIN e.parts}
<1> DEFINE all == {e} \cup UNION {Below(e.parts[i]) : i \in DOMAIN e.parts}
<1>1. \A i \in DOMAIN e.parts : /\ e.parts[i] \in Trees
                                /\ Below(e.parts[i]) \in SUBSET Trees
                                /\ e.parts[i] \in Below(e.parts[i])
                                /\ Closed(Below(e.parts[i]))
  BY TreeFacts, BelowClosed
<1>2. all \in SUBSET Trees /\ e \in all
  BY <1>1
<1>3. Closed(all)
  <2> SUFFICES ASSUME NEW x \in all, NEW i \in DOMAIN x.parts PROVE x.parts[i] \in all
    BY DEF Closed
  <2>1. CASE x = e
    BY <1>1, <2>1
  <2>2. ASSUME NEW n \in DOMAIN e.parts, x \in Below(e.parts[n]) PROVE x.parts[i] \in all
    <3>1. x.parts[i] \in Below(e.parts[n])
      BY <1>1, <2>2 DEF Closed
    <3> QED
      BY <3>1
  <2> QED
    BY <2>1, <2>2
<1>4. Below(e) \subseteq all
  <2> HIDE DEF all
  <2> QED
    BY <1>2, <1>3 DEF Below
<1>5. ASSUME NEW i \in DOMAIN e.parts PROVE Below(e.parts[i]) \subseteq Below(e)
  <2>1. e.parts[i] \in Below(e) /\ Closed(Below(e)) /\ Below(e) \in SUBSET Trees
    BY BelowClosed DEF Closed
  <2>2. \A x \in Below(e.parts[i]) : \A T \in SUBSET Trees : e.parts[i] \in T /\ Closed(T) => x \in T
    BY DEF Below
  <2> QED
    BY <2>1, <2>2
<1>6. all \subseteq Below(e)
  BY <1>5, BelowClosed
<1> QED
  BY <1>4, <1>6

(* The columns among the nodes of e.                                       *)
Columns(e) == {n.column : n \in {m \in Below(e) : m.kind = "column"}}

(* The columns of an expression, part by part.                             *)
LEMMA ColumnsAre ==
  ASSUME NEW e \in Trees
  PROVE  Columns(e) = IF e.kind = "column" THEN {e.column}
                      ELSE UNION {Columns(e.parts[i]) : i \in DOMAIN e.parts}
<1>1. CASE e.kind = "column"
  <2>1. DOMAIN e.parts = {}
    BY <1>1, TreeFacts
  <2>2. Below(e) = {e}
    BY <2>1, BelowIs
  <2> QED
    BY <1>1, <2>2 DEF Columns
<1>2. CASE e.kind # "column"
  <2>1. ASSUME NEW c PROVE c \in Columns(e) <=> \E i \in DOMAIN e.parts : c \in Columns(e.parts[i])
    <3>1. c \in Columns(e) <=> \E m \in Below(e) : m.kind = "column" /\ c = m.column
      BY DEF Columns
    <3>2. \A i : c \in Columns(e.parts[i]) <=>
                   \E m \in Below(e.parts[i]) : m.kind = "column" /\ c = m.column
      BY DEF Columns
    <3>3. \A m : m \in Below(e) <=> m = e \/ \E i \in DOMAIN e.parts : m \in Below(e.parts[i])
      BY BelowIs
    <3> QED
      BY <1>2, <3>1, <3>2, <3>3
  <2> QED
    BY <1>2, <2>1
<1> QED
  BY <1>1, <1>2

Gathered(f) ==
  [x \in Trees |-> IF x.kind = "column" THEN {x.column}
                   ELSE UNION {f[x.parts[i]] : i \in DOMAIN x.parts}]

(* Such a function gives the columns of every expression.                  *)
LEMMA GatheredAreColumns ==
  /\ \E f : f = Gathered(f)
  /\ \A f : f = Gathered(f) => \A e \in Trees : f[e] = Columns(e)
<1> DEFINE h == [x \in Trees |-> Columns(x)]
<1>1. h = Gathered(h)
  <2>1. ASSUME NEW x \in Trees
        PROVE  Columns(x) = IF x.kind = "column" THEN {x.column}
                            ELSE UNION {h[x.parts[i]] : i \in DOMAIN x.parts}
    <3>1. \A i \in DOMAIN x.parts : h[x.parts[i]] = Columns(x.parts[i])
      BY TreeFacts
    <3> HIDE DEF h
    <3> QED
      BY <3>1, ColumnsAre
  <2> QED
    BY <2>1 DEF Gathered
<1>2. ASSUME NEW f, f = Gathered(f) PROVE \A e \in Trees : f[e] = Columns(e)
  <2> DEFINE T == {e \in Trees : f[e] # Columns(e)}
  <2> SUFFICES ASSUME T # {} PROVE FALSE
    OBVIOUS
  <2>1. PICK e \in T : \A i \in DOMAIN e.parts : e.parts[i] \notin T
    BY LowestTree
  <2>2. \A i \in DOMAIN e.parts : f[e.parts[i]] = Columns(e.parts[i])
    BY <2>1, TreeFacts
  <2>3. f[e] = IF e.kind = "column" THEN {e.column}
               ELSE UNION {f[e.parts[i]] : i \in DOMAIN e.parts}
    <3>1. Gathered(f)[e] = IF e.kind = "column" THEN {e.column}
                           ELSE UNION {f[e.parts[i]] : i \in DOMAIN e.parts}
      BY DEF Gathered
    <3> QED
      BY <1>2, <3>1
  <2> QED
    BY <2>1, <2>2, <2>3, ColumnsAre
<1> QED
  BY <1>1, <1>2

(* Both collectors find the columns of an expression.                      *)
LEMMA CollectedAreColumns == ASSUME NEW e \in Trees PROVE Collected(e) = Columns(e)
<1> DEFINE f == CHOOSE g : g = Gathered(g)
<1>1. f = Gathered(f)
  BY GatheredAreColumns
<1>2. Collected(e) = f[e]
  BY DEF Collected, Gathered
<1> QED
  BY <1>1, <1>2, GatheredAreColumns

Referenced(f) ==
  [x \in Trees |-> IF x.kind = "column" THEN {x.column}
                   ELSE IF x.kind \in PhysicalKinds \ {"constant"}
                        THEN UNION {f[x.parts[i]] : i \in DOMAIN x.parts}
                        ELSE {}]

(* The physical planner finds the same columns as the logical one.         *)
LEMMA ReferencesAreColumns == ASSUME NEW e \in Trees PROVE References(e) = Columns(e)
<1> DEFINE f == CHOOSE g : g = Referenced(g)
<1>1. ASSUME NEW g PROVE Referenced(g) = Gathered(g)
  <2>1. ASSUME NEW x \in Trees
        PROVE  (IF x.kind = "column" THEN {x.column}
                ELSE IF x.kind \in PhysicalKinds \ {"constant"}
                     THEN UNION {g[x.parts[i]] : i \in DOMAIN x.parts}
                     ELSE {})
               = IF x.kind = "column" THEN {x.column}
                 ELSE UNION {g[x.parts[i]] : i \in DOMAIN x.parts}
    <3>1. x.kind \in PhysicalKinds /\ (x.kind = "constant" => DOMAIN x.parts = {})
      BY TreeFacts
    <3> QED
      BY <3>1
  <2> QED
    BY <2>1 DEF Gathered, Referenced
<1>2. References(e) = f[e]
  BY DEF References, Referenced
<1>3. f = Gathered(f)
  BY <1>1, GatheredAreColumns
<1> QED
  BY <1>2, <1>3, GatheredAreColumns

(* Nodes finds all nodes.                                                  *)
LEMMA NodesAreBelow == ASSUME NEW e \in Trees PROVE Nodes(e) = Below(e)
<1> DEFINE Body(g) == [x \in Trees |-> {x} \cup UNION {g[x.parts[i]] : i \in DOMAIN x.parts}]
           f == CHOOSE g : g = Body(g)
           h == [x \in Trees |-> Below(x)]
<1>1. h = Body(h)
  <2>1. ASSUME NEW x \in Trees
        PROVE  Below(x) = {x} \cup UNION {h[x.parts[i]] : i \in DOMAIN x.parts}
    <3>1. \A i \in DOMAIN x.parts : h[x.parts[i]] = Below(x.parts[i])
      BY TreeFacts
    <3> HIDE DEF h
    <3> QED
      BY <3>1, BelowIs
  <2> QED
    BY <2>1
<1>2. Nodes(e) = f[e]
  BY DEF Nodes
<1>3. f = Body(f)
  <2> HIDE DEF Body, h
  <2> QED
    BY <1>1
<1>4. \A x \in Trees : f[x] = {x} \cup UNION {f[x.parts[i]] : i \in DOMAIN x.parts}
  <2> HIDE DEF f
  <2> QED
    BY <1>3
<1> HIDE DEF f
<1> DEFINE T == {x \in Trees : f[x] # Below(x)}
<1>5. T = {}
  <2> SUFFICES ASSUME T # {} PROVE FALSE
    OBVIOUS
  <2>1. PICK x \in T : \A i \in DOMAIN x.parts : x.parts[i] \notin T
    BY LowestTree
  <2>2. \A i \in DOMAIN x.parts : f[x.parts[i]] = Below(x.parts[i])
    BY <2>1, TreeFacts
  <2>3. f[x] = {x} \cup UNION {f[x.parts[i]] : i \in DOMAIN x.parts}
    BY <1>4, <2>1
  <2>4. {f[x.parts[i]] : i \in DOMAIN x.parts} = {Below(x.parts[i]) : i \in DOMAIN x.parts}
    BY <2>2
  <2>5. Below(x) = {x} \cup UNION {Below(x.parts[i]) : i \in DOMAIN x.parts}
    BY <2>1, BelowIs
  <2> QED
    BY <2>1, <2>3, <2>4, <2>5
<1> QED
  BY <1>2, <1>5

(* An expression has finitely many columns.                                *)
LEMMA ColumnsFinite ==
  ASSUME NEW e \in Trees PROVE Columns(e) \in SUBSET Nat /\ IsFiniteSet(Columns(e))
<1> DEFINE T == {x \in Trees : ~IsFiniteSet(Columns(x))}
<1>1. T = {}
  <2> SUFFICES ASSUME T # {} PROVE FALSE
    OBVIOUS
  <2>1. PICK x \in T : \A i \in DOMAIN x.parts : x.parts[i] \notin T
    BY LowestTree
  <2>2. DOMAIN x.parts = 1..Len(x.parts) /\ Len(x.parts) \in Nat
    BY TreeFacts
  <2>3. \A i \in DOMAIN x.parts : IsFiniteSet(Columns(x.parts[i]))
    BY <2>1, TreeFacts
  <2> DEFINE S == {Columns(x.parts[i]) : i \in DOMAIN x.parts}
             f == [i \in DOMAIN x.parts |-> Columns(x.parts[i])]
  <2>4. f \in Surjection(DOMAIN x.parts, S)
    BY DEF Surjection
  <2>5. IsFiniteSet(S)
    <3>1. IsFiniteSet(DOMAIN x.parts)
      BY <2>2, FS_Interval
    <3> HIDE DEF S, f
    <3> QED
      BY <2>4, <3>1, FS_Surjection
  <2>6. IsFiniteSet(UNION S)
    <3>1. \A s \in S : IsFiniteSet(s)
      BY <2>3
    <3> HIDE DEF S
    <3> QED
      BY <2>5, <3>1, FS_UNION
  <2>7. Columns(x) = UNION S \/ Columns(x) = {x.column}
    BY ColumnsAre
  <2>8. IsFiniteSet({x.column})
    BY FS_Singleton
  <2> QED
    BY <2>1, <2>6, <2>7, <2>8
<1>2. \A m \in Below(e) : m.column \in Nat
  BY BelowClosed, TreeFacts
<1> QED
  BY <1>1, <1>2 DEF Columns

(* Ascending lists of sets.                                                *)
Ascends(s) == \A i, j \in DOMAIN s : i < j => s[i] < s[j]

(* Every finite set of ids can be sorted.                                  *)
LEMMA AscendingExists ==
  ASSUME NEW S \in SUBSET Nat, IsFiniteSet(S)
  PROVE  \E s \in [1 .. Cardinality(S) -> S] : Ascends(s)
<1> DEFINE Has(R) == \E s \in [1 .. Cardinality(R) -> R] : Ascends(s)
           Sets == {R \in SUBSET Nat : IsFiniteSet(R) /\ ~Has(R)}
           Bad == {Cardinality(R) : R \in Sets}
<1>1. Bad = {}
  <2> SUFFICES ASSUME Bad # {} PROVE FALSE
    OBVIOUS
  <2>1. Bad \in SUBSET Nat
    BY FS_CardinalityType
  <2>2. PICK n \in Bad : \A m \in Bad : n <= m
    <3> HIDE DEF Bad
    <3> QED
      BY <2>1, LeastExists
  <2>3. PICK R \in Sets : n = Cardinality(R)
    OBVIOUS
  <2>4. n \in Nat
    BY <2>1
  <2>5. R # {}
    <3> SUFFICES ASSUME R = {} PROVE FALSE
      OBVIOUS
    <3>1. Cardinality(R) = 0
      BY FS_EmptySet
    <3> DEFINE s == [i \in 1..0 |-> 0]
    <3>2. s \in [1 .. Cardinality(R) -> R] /\ Ascends(s)
      BY <3>1 DEF Ascends
    <3> QED
      BY <3>2
  <2>6. PICK x \in R : \A y \in R : x <= y
    BY <2>5, LeastExists
  <2> DEFINE Q == R \ {x}
  <2>7. IsFiniteSet(Q) /\ Cardinality(Q) = n - 1 /\ Q \in SUBSET Nat
    BY <2>3, FS_RemoveElement
  <2>8. PICK q \in [1 .. n - 1 -> Q] : Ascends(q)
    <3>1. n - 1 \notin Bad
      BY <2>1, <2>2, <2>4
    <3> QED
      BY <2>7, <3>1
  <2> DEFINE s == [i \in 1..n |-> IF i = 1 THEN x ELSE q[i - 1]]
  <2>9. \A i \in 1..n : i # 1 => i - 1 \in 1 .. n - 1 /\ q[i - 1] \in Q /\ x < q[i - 1]
    <3> SUFFICES ASSUME NEW i \in 1..n, i # 1
                 PROVE  i - 1 \in 1 .. n - 1 /\ q[i - 1] \in Q /\ x < q[i - 1]
      OBVIOUS
    <3>1. i - 1 \in 1 .. n - 1
      BY <2>4
    <3>2. q[i - 1] \in R /\ q[i - 1] # x
      BY <3>1
    <3>3. x \in Nat /\ q[i - 1] \in Nat /\ x <= q[i - 1]
      BY <2>6, <3>2
    <3> QED
      BY <3>1, <3>2, <3>3
  <2>10. s \in [1..n -> R]
    <3> HIDE DEF Q
    <3>1. \A i \in 1..n : i # 1 => q[i - 1] \in R
      BY <2>9 DEF Q
    <3> QED
      BY <3>1
  <2>11. Ascends(s)
    <3> SUFFICES ASSUME NEW i \in 1..n, NEW j \in 1..n, i < j PROVE s[i] < s[j]
      BY DEF Ascends
    <3>1. j # 1 /\ j - 1 \in 1 .. n - 1 /\ s[j] = q[j - 1] /\ x < q[j - 1]
      BY <2>9
    <3>2. CASE i = 1
      BY <3>1, <3>2
    <3>3. CASE i # 1
      <4>1. i - 1 \in 1 .. n - 1 /\ s[i] = q[i - 1] /\ i - 1 < j - 1
        BY <2>9, <3>3
      <4> QED
        BY <2>8, <3>1, <4>1 DEF Ascends
    <3> QED
      BY <3>2, <3>3
  <2> HIDE DEF s
  <2> QED
    BY <2>3, <2>10, <2>11
<1>2. Has(S)
  <2> HIDE DEF Has
  <2> QED
    BY <1>1
<1> QED
  BY <1>2

(* The ids of a set, sorted: all of them, each once, in ascending order.   *)
LEMMA SortedFacts ==
  ASSUME NEW S \in SUBSET Nat, IsFiniteSet(S)
  PROVE  /\ Sorted(S) \in Seq(Nat) /\ Len(Sorted(S)) = Cardinality(S)
         /\ Range(Sorted(S)) = S
         /\ Ascends(Sorted(S))
<1> DEFINE n == Cardinality(S)
           s == Sorted(S)
<1>1. n \in Nat
  BY FS_CardinalityType
<1>2. s \in [1..n -> S] /\ Ascends(s)
  BY AscendingExists DEF Sorted, Ascends
<1>3. Cardinality(1..n) = n /\ IsFiniteSet(1..n)
  BY <1>1, FS_Interval
<1> HIDE DEF n, s
<1>4. \A i, j \in 1..n : s[i] = s[j] => i = j
  <2> SUFFICES ASSUME NEW i \in 1..n, NEW j \in 1..n, s[i] = s[j], i # j PROVE FALSE
    OBVIOUS
  <2>1. i < j \/ j < i
    BY <1>1
  <2>2. s[i] \in Nat /\ s[j] \in Nat
    BY <1>2
  <2> QED
    BY <1>2, <2>1, <2>2 DEF Ascends
<1>5. s \in Injection(1..n, S)
  BY <1>2, <1>4 DEF Injection, IsInjective
<1>6. s \in Surjection(1..n, S)
  BY <1>3, <1>5, FS_Injection DEF n
<1>7. Range(s) = S
  BY <1>2, <1>6 DEF Range, Surjection
<1>8. s \in Seq(Nat) /\ Len(s) = n
  <2>1. s \in [1..n -> Nat]
    BY <1>2
  <2> QED
    BY <1>1, <2>1
<1> QED
  BY <1>2, <1>7, <1>8 DEF n, s

(* Lists of expressions.                                                   *)
ColumnsOf(s) == UNION {Columns(s[i]) : i \in DOMAIN s}

(* What holds of an expression holds of lists of them.                     *)
LEMMA ListFacts ==
  ASSUME NEW s \in Seq(Trees)
  PROVE  /\ Clones(s) = s /\ Copies(s) = s
         /\ CollectedFrom(s) = ColumnsOf(s) /\ ReferencesFrom(s) = ColumnsOf(s)
         /\ ColumnsIn(s) = ColumnsOf(s)
<1>1. \A i \in DOMAIN s : s[i] \in Trees
  OBVIOUS
<1>2. s = [i \in DOMAIN s |-> s[i]]
  OBVIOUS
<1>3. Clones(s) = s /\ Copies(s) = s
  <2>1. \A i \in DOMAIN s : Clone(s[i]) = s[i] /\ Copy(s[i]) = s[i]
    BY <1>1, CopiesAreSame
  <2> QED
    BY <1>2, <2>1 DEF Clones, Copies
<1>4. CollectedFrom(s) = ColumnsOf(s) /\ ReferencesFrom(s) = ColumnsOf(s)
  <2>1. \A i \in DOMAIN s : Collected(s[i]) = Columns(s[i]) /\ References(s[i]) = Columns(s[i])
    BY <1>1, CollectedAreColumns, ReferencesAreColumns
  <2> QED
    BY <2>1 DEF CollectedFrom, ReferencesFrom, ColumnsOf
<1>5. ColumnsIn(s) = ColumnsOf(s)
  <2>1. \A i \in DOMAIN s : Nodes(s[i]) = Below(s[i])
    BY <1>1, NodesAreBelow
  <2>2. ASSUME NEW c PROVE c \in ColumnsIn(s) <=> c \in ColumnsOf(s)
    <3>1. c \in ColumnsIn(s) <=>
            \E i \in DOMAIN s : \E m \in Nodes(s[i]) : m.kind = "column" /\ c = m.column
      BY DEF ColumnsIn
    <3>2. c \in ColumnsOf(s) <=>
            \E i \in DOMAIN s : \E m \in Below(s[i]) : m.kind = "column" /\ c = m.column
      BY DEF ColumnsOf, Columns
    <3> QED
      BY <2>1, <3>1, <3>2
  <2> QED
    BY <2>2
<1> QED
  BY <1>3, <1>4, <1>5

(* A list of expressions has finitely many columns.                        *)
LEMMA ColumnsOfFinite ==
  ASSUME NEW s \in Seq(Trees)
  PROVE  ColumnsOf(s) \in SUBSET Nat /\ IsFiniteSet(ColumnsOf(s))
<1> DEFINE S == {Columns(s[i]) : i \in DOMAIN s}
           f == [i \in DOMAIN s |-> Columns(s[i])]
<1>1. \A i \in DOMAIN s : Columns(s[i]) \in SUBSET Nat /\ IsFiniteSet(Columns(s[i]))
  BY ColumnsFinite
<1>2. f \in Surjection(DOMAIN s, S)
  BY DEF Surjection
<1>3. IsFiniteSet(S)
  <2>1. IsFiniteSet(DOMAIN s)
    <3>1. DOMAIN s = 1..Len(s) /\ Len(s) \in Nat
      OBVIOUS
    <3> QED
      BY <3>1, FS_Interval
  <2> HIDE DEF S, f
  <2> QED
    BY <1>2, <2>1, FS_Surjection
<1>4. IsFiniteSet(UNION S)
  <2>1. \A x \in S : IsFiniteSet(x)
    BY <1>1
  <2> HIDE DEF S
  <2> QED
    BY <1>3, <2>1, FS_UNION
<1> QED
  BY <1>1, <1>4 DEF ColumnsOf

(* No expression, or one.                                                  *)
LEMMA OptionalFacts ==
  ASSUME NEW S, NEW w \in Optional(S)
  PROVE  w \in Seq(S) /\ (w # <<>> => w[1] \in S /\ w = <<w[1]>>)
<1>1. w \in Seq(S) /\ Len(w) <= 1
  BY DEF Optional
<1>2. ASSUME w # <<>> PROVE w[1] \in S /\ w = <<w[1]>>
  <2>1. Len(w) \in Nat /\ Len(w) # 0
    BY <1>1, <1>2
  <2> DEFINE n == Len(w)
  <2>2. n = 1
    <3>1. n \in Nat /\ n # 0 /\ n <= 1
      BY <1>1, <2>1
    <3> HIDE DEF n
    <3> QED
      BY <3>1
  <2>3. w[1] \in S
    BY <1>1, <2>2
  <2> QED
    BY <1>1, <2>2, <2>3
<1> QED
  BY <1>1, <1>2

(* The operators of a plan.                                                *)
OperatorTypes ==
  {"scan", "filter", "aggregate", "project", "sort", "limit_offset", "delete", "update"}
Operators ==
  [type : OperatorTypes, columns : Seq(Nat), items : Seq(Trees), groups : Seq(Trees),
   limit : Optional(Nat), offset : Optional(Nat)]

(* What the constructor of operators makes.                                *)
LEMMA OperatorFacts ==
  ASSUME NEW type \in OperatorTypes, NEW columns \in Seq(Nat), NEW items \in Seq(Trees)
  PROVE  /\ Operator(type, columns, items) \in Operators
         /\ Operator(type, columns, items).type = type
         /\ Operator(type, columns, items).columns = columns
         /\ Operator(type, columns, items).items = items
         /\ Operator(type, columns, items).groups = <<>>
         /\ Operator(type, columns, items).limit = <<>>
         /\ Operator(type, columns, items).offset = <<>>
<1>1. <<>> \in Seq(Trees) /\ <<>> \in Optional(Nat)
  BY DEF Optional
<1> QED
  BY <1>1 DEF Operator, Operators

(* An empty clause is of every type.                                       *)
LEMMA NoneAtAll ==
  <<>> \in Seq(Nat) /\ <<>> \in Seq(Trees) /\ <<>> \in Optional(Nat) /\ <<>> \in Optional(Trees)
  BY DEF Optional

(* What an operator, and what the operators of a plan work with.           *)
Uses(op) == ColumnsOf(op.items) \cup ColumnsOf(op.groups) \cup Range(op.columns)
Used(plan) == UNION {Uses(plan[i]) : i \in DOMAIN plan}
Above(plan) == UNION {Uses(plan[i]) : i \in 2..Len(plan)}
TypesOf(plan) == {plan[i].type : i \in DOMAIN plan}

(* What a longer plan works with.                                          *)
LEMMA PlanGrows ==
  ASSUME NEW p \in Seq(Operators), p # <<>>, NEW q \in Seq(Operators)
  PROVE  /\ p \o q \in Seq(Operators) /\ p \o q # <<>> /\ (p \o q)[1] = p[1]
         /\ Above(p \o q) = Above(p) \cup Used(q)
         /\ TypesOf(p \o q) = TypesOf(p) \cup TypesOf(q)
<1> DEFINE t == p \o q
           m == Len(p)
           n == Len(q)
<1>1. m \in Nat /\ n \in Nat /\ m # 0 /\ DOMAIN p = 1..m /\ DOMAIN q = 1..n
  OBVIOUS
<1>2. t \in Seq(Operators) /\ Len(t) = m + n
  OBVIOUS
<1>3. \A i \in 1..m : t[i] = p[i]
  OBVIOUS
<1>4. \A i \in 1..n : t[m + i] = q[i]
  OBVIOUS
<1> HIDE DEF t, m, n
<1>5. DOMAIN t = 1..m + n
  BY <1>2
<1>6. \A i \in 1..m + n : i \in 1..m \/ (i - m \in 1..n /\ i = m + (i - m))
  BY <1>1
<1>7. \A i \in 1..n : m + i \in 2..m + n
  BY <1>1
<1>8. \A i \in 2..m : i \in 2..m + n /\ i \in 1..m
  BY <1>1
<1>9. Above(t) = Above(p) \cup Used(q)
  <2>1. ASSUME NEW c PROVE c \in Above(t) <=> c \in Above(p) \/ c \in Used(q)
    <3>1. c \in Above(t) <=> \E i \in 2..m + n : c \in Uses(t[i])
      BY <1>2 DEF Above
    <3>2. c \in Above(p) <=> \E i \in 2..m : c \in Uses(p[i])
      BY DEF Above, m
    <3>3. c \in Used(q) <=> \E i \in 1..n : c \in Uses(q[i])
      BY <1>1 DEF Used
    <3>4. ASSUME NEW i \in 2..m + n, c \in Uses(t[i]) PROVE c \in Above(p) \/ c \in Used(q)
      <4>1. CASE i \in 1..m
        <5>1. t[i] = p[i] /\ i \in 2..m
          BY <1>1, <1>3, <4>1
        <5> QED
          BY <3>2, <3>4, <5>1
      <4>2. CASE i - m \in 1..n /\ i = m + (i - m)
        BY <1>4, <3>3, <3>4, <4>2
      <4>3. i \in 1..m + n
        BY <1>1
      <4> QED
        BY <1>6, <4>1, <4>2, <4>3
    <3>5. c \in Above(p) => c \in Above(t)
      BY <1>3, <1>8, <3>1, <3>2
    <3>6. c \in Used(q) => c \in Above(t)
      BY <1>4, <1>7, <3>1, <3>3
    <3> QED
      BY <3>1, <3>4, <3>5, <3>6
  <2> QED
    BY <2>1
<1>10. TypesOf(t) = TypesOf(p) \cup TypesOf(q)
  <2>1. \A i \in 1..m + n : (t[i] = p[i] /\ i \in 1..m) \/ (t[i] = q[i - m] /\ i - m \in 1..n)
    <3> SUFFICES ASSUME NEW i \in 1..m + n
                 PROVE  (t[i] = p[i] /\ i \in 1..m) \/ (t[i] = q[i - m] /\ i - m \in 1..n)
      OBVIOUS
    <3>1. CASE i \in 1..m
      <4>1. t[i] = p[i]
        BY <1>3, <3>1
      <4> QED
        BY <3>1, <4>1
    <3>2. CASE i - m \in 1..n /\ i = m + (i - m)
      <4> DEFINE k == i - m
      <4>1. k \in 1..n /\ i = m + k
        BY <3>2
      <4> HIDE DEF k
      <4>2. t[i] = q[k]
        BY <1>4, <4>1
      <4> QED
        BY <4>1, <4>2 DEF k
    <3> QED
      BY <1>6, <3>1, <3>2
  <2>2. \A i \in 1..m : i \in 1..m + n
    BY <1>1
  <2>3. \A i \in 1..n : m + i \in 1..m + n
    BY <1>1
  <2>4. TypesOf(t) = {t[i].type : i \in 1..m + n}
    BY <1>5 DEF TypesOf
  <2>5. TypesOf(p) = {p[i].type : i \in 1..m} /\ TypesOf(q) = {q[i].type : i \in 1..n}
    BY <1>1 DEF TypesOf
  <2>6. TypesOf(t) \subseteq TypesOf(p) \cup TypesOf(q)
    BY <2>1, <2>4, <2>5
  <2>7. TypesOf(p) \subseteq TypesOf(t)
    BY <1>3, <2>2, <2>4, <2>5
  <2>8. TypesOf(q) \subseteq TypesOf(t)
    BY <1>4, <2>3, <2>4, <2>5
  <2> QED
    BY <2>6, <2>7, <2>8
<1>11. t # <<>> /\ t[1] = p[1]
  <2>1. Len(t) # 0 /\ 1 \in 1..m
    BY <1>1, <1>2
  <2> QED
    BY <1>2, <1>3, <2>1
<1> QED
  BY <1>2, <1>9, <1>10, <1>11 DEF t

(* A plan that is one operator, or none.                                   *)
LEMMA OneOperator ==
  ASSUME NEW op \in Operators
  PROVE  /\ <<op>> \in Seq(Operators) /\ Used(<<op>>) = Uses(op) /\ TypesOf(<<op>>) = {op.type}
         /\ Above(<<op>>) = {}
         /\ <<>> \in Seq(Operators) /\ Used(<<>>) = {} /\ TypesOf(<<>>) = {}
<1> DEFINE p == <<op>>
<1>1. p \in Seq(Operators) /\ DOMAIN p = 1..1 /\ Len(p) = 1 /\ p[1] = op
  OBVIOUS
<1>2. 1..1 = {1} /\ 2..1 = {}
  OBVIOUS
<1> HIDE DEF p
<1>3. Used(p) = Uses(op)
  BY <1>1, <1>2 DEF Used
<1>4. TypesOf(p) = {op.type}
  BY <1>1, <1>2 DEF TypesOf
<1>5. Above(p) = {}
  BY <1>1, <1>2 DEF Above
<1>6. <<>> \in Seq(Operators) /\ Used(<<>>) = {} /\ TypesOf(<<>>) = {}
  BY DEF Used, TypesOf
<1> QED
  BY <1>1, <1>3, <1>4, <1>5, <1>6 DEF p

(* An operator for a clause that may be missing.                           *)
LEMMA MaybeFacts ==
  ASSUME NEW c \in BOOLEAN, NEW op \in Operators
  PROVE  /\ Maybe(c, op) \in Seq(Operators)
         /\ Used(Maybe(c, op)) = IF c THEN Uses(op) ELSE {}
         /\ TypesOf(Maybe(c, op)) \subseteq {op.type}
<1>1. CASE c
  BY <1>1, OneOperator DEF Maybe
<1>2. CASE ~c
  BY <1>2, OneOperator DEF Maybe
<1> QED
  BY <1>1, <1>2

(* What operators work with.                                               *)
LEMMA NothingUsed == ColumnsOf(<<>>) = {} /\ Range(<<>>) = {}
  BY DEF ColumnsOf, Range

(* What an operator without groups works with.                             *)
LEMMA OperatorUses ==
  ASSUME NEW type \in OperatorTypes, NEW columns \in Seq(Nat), NEW items \in Seq(Trees)
  PROVE  Uses(Operator(type, columns, items)) = ColumnsOf(items) \cup Range(columns)
<1>1. PICK op : op = Operator(type, columns, items)
  OBVIOUS
<1>2. op.columns = columns /\ op.items = items /\ op.groups = <<>>
  BY <1>1, OperatorFacts
<1> QED
  BY <1>1, <1>2, NothingUsed DEF Uses

(* A filter for a condition that there is.                                 *)
LEMMA FiltersFacts ==
  ASSUME NEW w \in Optional(Trees)
  PROVE  /\ Filters(w) = IF w = <<>> THEN <<>> ELSE <<Operator("filter", <<>>, w)>>
         /\ Filters(w) \in Seq(Operators)
         /\ Used(Filters(w)) = ColumnsOf(w)
         /\ TypesOf(Filters(w)) \subseteq {"filter"}
         /\ Operator("filter", <<>>, w) \in Operators
<1>1. w \in Seq(Trees) /\ (w # <<>> => w[1] \in Trees /\ w = <<w[1]>>)
  BY OptionalFacts
<1>2. Operator("filter", <<>>, w) \in Operators
      /\ Operator("filter", <<>>, w).type = "filter"
  <2>1. "filter" \in OperatorTypes
    BY DEF OperatorTypes
  <2> QED
    BY <1>1, <2>1, NoneAtAll, OperatorFacts
<1>3. Uses(Operator("filter", <<>>, w)) = ColumnsOf(w)
  <2>1. "filter" \in OperatorTypes
    BY DEF OperatorTypes
  <2>2. w \in Seq(Trees) /\ <<>> \in Seq(Nat)
    BY <1>1, NoneAtAll
  <2>3. Uses(Operator("filter", <<>>, w)) = ColumnsOf(w) \cup Range(<<>>)
    BY <2>1, <2>2, OperatorUses
  <2> QED
    BY <2>3, NothingUsed
<1>4. CASE w = <<>>
  <2>1. Filters(w) = <<>>
    BY <1>4 DEF Filters
  <2> QED
    BY <1>2, <1>4, <2>1, OneOperator, NothingUsed
<1>5. CASE w # <<>>
  <2>1. DOMAIN w = 1..1 /\ Clone(w[1]) = w[1]
    BY <1>1, <1>5, CopiesAreSame
  <2>2. Filters(w) = [i \in 1..1 |-> Operator("filter", <<>>, <<Clone(w[i])>>)]
    BY <2>1 DEF Filters
  <2>3. \A i \in 1..1 : Operator("filter", <<>>, <<Clone(w[i])>>) = Operator("filter", <<>>, w)
    <3>1. \A i \in 1..1 : i = 1
      OBVIOUS
    <3> QED
      BY <1>1, <1>5, <2>1, <3>1
  <2>4. Filters(w) = <<Operator("filter", <<>>, w)>>
    <3> DEFINE op == Operator("filter", <<>>, w)
    <3>1. Filters(w) = [i \in 1..1 |-> op]
      BY <2>2, <2>3
    <3>2. <<op>> = [i \in 1..1 |-> op]
      OBVIOUS
    <3> QED
      BY <3>1, <3>2
  <2> QED
    BY <1>2, <1>3, <1>5, <2>4, OneOperator
<1> QED
  BY <1>4, <1>5

(* A scan.                                                                 *)
LEMMA ScanFacts ==
  ASSUME NEW S \in SUBSET Nat, IsFiniteSet(S)
  PROVE  /\ Scan(S) \in Operators /\ Scan(S).type = "scan"
         /\ Scan(S).columns = Sorted(S) /\ Range(Scan(S).columns) = S
         /\ Ascends(Scan(S).columns) /\ Scan(S).columns \in Seq(Nat)
<1>1. Sorted(S) \in Seq(Nat) /\ Range(Sorted(S)) = S /\ Ascends(Sorted(S))
  BY SortedFacts
<1>2. <<>> \in Seq(Trees) /\ "scan" \in OperatorTypes
  BY DEF OperatorTypes
<1>3. Scan(S) = Operator("scan", Sorted(S), <<>>)
  BY DEF Scan
<1>4. /\ Scan(S) \in Operators /\ Scan(S).type = "scan"
      /\ Scan(S).columns = Sorted(S)
  <2>1. /\ Operator("scan", Sorted(S), <<>>) \in Operators
        /\ Operator("scan", Sorted(S), <<>>).type = "scan"
        /\ Operator("scan", Sorted(S), <<>>).columns = Sorted(S)
    BY <1>1, <1>2, OperatorFacts, Zenon
  <2> QED
    BY <1>3, <2>1, Zenon
<1> QED
  BY <1>1, <1>4, Zenon

(* What a plan reads is what it works with, in ascending order.            *)
Scans(plan) ==
  /\ plan \in Seq(Operators) /\ plan # <<>>
  /\ Range(plan[1].columns) = Above(plan) /\ Ascends(plan[1].columns)
  /\ plan[1].columns \in Seq(Nat)

-----------------------------------------------------------------------------
(* The plan of a SELECT.                                                   *)
Aggregates(s) == s.group # <<>> \/ HasAggregate(s)
SelectColumns(s) ==
  ColumnsOf(s.items) \cup ColumnsOf(s.where) \cup ColumnsOf(s.group)
    \cup ColumnsOf(s.having) \cup ColumnsOf(s.order)
AggregateOf(s) == [Operator("aggregate", <<>>, s.items) EXCEPT !.groups = s.group]
ProjectOf(s) == Operator("project", <<>>, s.items)
SortOf(s) == Operator("sort", <<>>, s.order)
LimitOf(s) ==
  [Operator("limit_offset", <<>>, <<>>) EXCEPT !.limit = s.limit, !.offset = s.offset]

(* The clauses of a SELECT.                                                *)
LEMMA SelectTypes ==
  ASSUME NEW s \in Selects
  PROVE  /\ s.items \in Seq(Trees) /\ s.group \in Seq(Trees) /\ s.order \in Seq(Trees)
         /\ s.where \in Optional(Trees) /\ s.having \in Optional(Trees)
         /\ s.where \in Seq(Trees) /\ s.having \in Seq(Trees)
         /\ s.limit \in Optional(Nat) /\ s.offset \in Optional(Nat)
         /\ s.kind = "select"
<1>1. /\ s.items \in Seq(Trees) /\ s.group \in Seq(Trees) /\ s.order \in Seq(Trees)
      /\ s.where \in Optional(Trees) /\ s.having \in Optional(Trees)
      /\ s.limit \in Optional(Nat) /\ s.offset \in Optional(Nat)
      /\ s.kind = "select"
  BY DEF Selects
<1> QED
  BY <1>1, OptionalFacts

(* Its columns can be sorted.                                              *)
LEMMA SelectColumnsFinite ==
  ASSUME NEW s \in Selects
  PROVE  SelectColumns(s) \in SUBSET Nat /\ IsFiniteSet(SelectColumns(s))
<1>1. \A t \in Seq(Trees) : ColumnsOf(t) \in SUBSET Nat /\ IsFiniteSet(ColumnsOf(t))
  BY ColumnsOfFinite
<1>2. /\ s.items \in Seq(Trees) /\ s.group \in Seq(Trees) /\ s.order \in Seq(Trees)
      /\ s.where \in Seq(Trees) /\ s.having \in Seq(Trees)
  BY SelectTypes
<1> QED
  BY <1>1, <1>2, FS_Union DEF SelectColumns

(* What its operators hold and work with.                                  *)
LEMMA SelectOperators ==
  ASSUME NEW s \in Selects
  PROVE  /\ AggregateOf(s) \in Operators /\ AggregateOf(s).type = "aggregate"
         /\ Uses(AggregateOf(s)) = ColumnsOf(s.items) \cup ColumnsOf(s.group)
         /\ ProjectOf(s) \in Operators /\ ProjectOf(s).type = "project"
         /\ ProjectOf(s).items = s.items
         /\ Uses(ProjectOf(s)) = ColumnsOf(s.items)
         /\ SortOf(s) \in Operators /\ SortOf(s).type = "sort"
         /\ Uses(SortOf(s)) = ColumnsOf(s.order)
         /\ LimitOf(s) \in Operators /\ LimitOf(s).type = "limit_offset"
         /\ LimitOf(s).limit = s.limit /\ LimitOf(s).offset = s.offset
         /\ Uses(LimitOf(s)) = {}
<1>1. /\ s.items \in Seq(Trees) /\ s.group \in Seq(Trees) /\ s.order \in Seq(Trees)
      /\ s.limit \in Optional(Nat) /\ s.offset \in Optional(Nat)
  BY SelectTypes
<1>2. <<>> \in Seq(Nat) /\ <<>> \in Seq(Trees) /\ <<>> \in Optional(Nat)
  BY DEF Optional
<1>3. /\ ProjectOf(s) \in Operators /\ ProjectOf(s).type = "project"
      /\ ProjectOf(s).items = s.items
  BY <1>1, <1>2 DEF ProjectOf, Operator, Operators, OperatorTypes
<1>4. SortOf(s) \in Operators /\ SortOf(s).type = "sort"
  BY <1>1, <1>2 DEF SortOf, Operator, Operators, OperatorTypes
<1>5. Uses(ProjectOf(s)) = ColumnsOf(s.items) /\ Uses(SortOf(s)) = ColumnsOf(s.order)
  <2>1. Uses(ProjectOf(s)) = ColumnsOf(s.items) \cup Range(<<>>)
    <3>1. "project" \in OperatorTypes
      BY DEF OperatorTypes
    <3> QED
      BY <1>1, <1>2, <3>1, OperatorUses DEF ProjectOf
  <2>2. Uses(SortOf(s)) = ColumnsOf(s.order) \cup Range(<<>>)
    <3>1. "sort" \in OperatorTypes
      BY DEF OperatorTypes
    <3> QED
      BY <1>1, <1>2, <3>1, OperatorUses DEF SortOf
  <2> QED
    BY <2>1, <2>2, NothingUsed
<1>6. /\ AggregateOf(s) \in Operators /\ AggregateOf(s).type = "aggregate"
      /\ AggregateOf(s).items = s.items /\ AggregateOf(s).groups = s.group
      /\ AggregateOf(s).columns = <<>>
  BY <1>1, <1>2 DEF AggregateOf, Operator, Operators, OperatorTypes
<1>7. Uses(AggregateOf(s)) = ColumnsOf(s.items) \cup ColumnsOf(s.group)
  BY <1>6, NothingUsed DEF Uses
<1>8. /\ LimitOf(s) \in Operators /\ LimitOf(s).type = "limit_offset"
      /\ LimitOf(s).limit = s.limit /\ LimitOf(s).offset = s.offset
      /\ LimitOf(s).items = <<>> /\ LimitOf(s).groups = <<>> /\ LimitOf(s).columns = <<>>
  BY <1>1, <1>2 DEF LimitOf, Operator, Operators, OperatorTypes
<1>9. Uses(LimitOf(s)) = {}
  BY <1>8, NothingUsed DEF Uses
<1> QED
  BY <1>3, <1>4, <1>5, <1>6, <1>7, <1>8, <1>9

(* The planner's copies are the expressions themselves.                    *)
LEMMA SelectPlanIs ==
  ASSUME NEW s \in Selects
  PROVE  LogicalPlan(s) =
           <<Scan(SelectColumns(s))>> \o Filters(s.where)
             \o Maybe(Aggregates(s), AggregateOf(s)) \o Filters(s.having)
             \o Maybe(~Aggregates(s), ProjectOf(s)) \o Maybe(s.order # <<>>, SortOf(s))
             \o Maybe(s.limit # <<>> \/ s.offset # <<>>, LimitOf(s))
<1>1. /\ s.items \in Seq(Trees) /\ s.group \in Seq(Trees) /\ s.order \in Seq(Trees)
      /\ s.where \in Seq(Trees) /\ s.having \in Seq(Trees) /\ s.kind = "select"
  BY SelectTypes
<1>2. Clones(s.items) = s.items /\ Clones(s.group) = s.group /\ Clones(s.order) = s.order
  BY <1>1, ListFacts
<1>3. /\ CollectedFrom(s.items) = ColumnsOf(s.items)
      /\ CollectedFrom(s.where) = ColumnsOf(s.where)
      /\ CollectedFrom(s.group) = ColumnsOf(s.group)
      /\ CollectedFrom(s.having) = ColumnsOf(s.having)
      /\ CollectedFrom(s.order) = ColumnsOf(s.order)
  BY <1>1, ListFacts
<1>4. LogicalPlan(s) = PlanSelect(s)
  BY <1>1 DEF LogicalPlan
<1> QED
  BY <1>2, <1>3, <1>4
  DEF PlanSelect, Aggregates, SelectColumns, AggregateOf, ProjectOf, SortOf, LimitOf

(* It scans what its operators work with, whichever there are.             *)
LEMMA SelectScans ==
  ASSUME NEW s \in Selects
  PROVE  /\ Scans(LogicalPlan(s))
         /\ LogicalPlan(s)[1] = Scan(SelectColumns(s))
         /\ TypesOf(LogicalPlan(s)) \subseteq
              {"scan", "filter", "aggregate", "project", "sort", "limit_offset"}
<1> DEFINE a == Maybe(Aggregates(s), AggregateOf(s))
           b == Maybe(~Aggregates(s), ProjectOf(s))
           c == Maybe(s.order # <<>>, SortOf(s))
           d == Maybe(s.limit # <<>> \/ s.offset # <<>>, LimitOf(s))
           p0 == <<Scan(SelectColumns(s))>>
           p1 == p0 \o Filters(s.where)
           p2 == p1 \o a
           p3 == p2 \o Filters(s.having)
           p4 == p3 \o b
           p5 == p4 \o c
           p6 == p5 \o d
<1>1. LogicalPlan(s) = p6
  BY SelectPlanIs
<1>2. s.where \in Optional(Trees) /\ s.having \in Optional(Trees)
  BY SelectTypes
<1>3. /\ Filters(s.where) \in Seq(Operators) /\ Used(Filters(s.where)) = ColumnsOf(s.where)
      /\ TypesOf(Filters(s.where)) \subseteq {"filter"}
      /\ Filters(s.having) \in Seq(Operators) /\ Used(Filters(s.having)) = ColumnsOf(s.having)
      /\ TypesOf(Filters(s.having)) \subseteq {"filter"}
  BY <1>2, FiltersFacts
<1>4. Aggregates(s) \in BOOLEAN /\ (s.order # <<>>) \in BOOLEAN
      /\ (s.limit # <<>> \/ s.offset # <<>>) \in BOOLEAN
  BY DEF Aggregates, HasAggregate
<1>5. /\ a \in Seq(Operators) /\ TypesOf(a) \subseteq {"aggregate"}
      /\ Used(a) = IF Aggregates(s) THEN ColumnsOf(s.items) \cup ColumnsOf(s.group) ELSE {}
  BY <1>4, SelectOperators, MaybeFacts
<1>6. /\ b \in Seq(Operators) /\ TypesOf(b) \subseteq {"project"}
      /\ Used(b) = IF ~Aggregates(s) THEN ColumnsOf(s.items) ELSE {}
  BY <1>4, SelectOperators, MaybeFacts
<1>7. /\ c \in Seq(Operators) /\ TypesOf(c) \subseteq {"sort"}
      /\ Used(c) = IF s.order # <<>> THEN ColumnsOf(s.order) ELSE {}
  BY <1>4, SelectOperators, MaybeFacts
<1>8. d \in Seq(Operators) /\ TypesOf(d) \subseteq {"limit_offset"} /\ Used(d) = {}
  BY <1>4, SelectOperators, MaybeFacts
<1>9. /\ Scan(SelectColumns(s)) \in Operators /\ Scan(SelectColumns(s)).type = "scan"
      /\ Range(Scan(SelectColumns(s)).columns) = SelectColumns(s)
      /\ Ascends(Scan(SelectColumns(s)).columns)
      /\ Scan(SelectColumns(s)).columns \in Seq(Nat)
  BY SelectColumnsFinite, ScanFacts
<1>10. /\ p0 \in Seq(Operators) /\ p0 # <<>> /\ p0[1] = Scan(SelectColumns(s))
       /\ Above(p0) = {} /\ TypesOf(p0) = {"scan"}
  BY <1>9, OneOperator
<1> HIDE DEF a, b, c, d, p0
<1>11. /\ p1 \in Seq(Operators) /\ p1 # <<>> /\ p1[1] = p0[1]
       /\ Above(p1) = Above(p0) \cup Used(Filters(s.where))
       /\ TypesOf(p1) = TypesOf(p0) \cup TypesOf(Filters(s.where))
  BY <1>3, <1>10, PlanGrows
<1> HIDE DEF p1
<1>12. /\ p2 \in Seq(Operators) /\ p2 # <<>> /\ p2[1] = p1[1]
       /\ Above(p2) = Above(p1) \cup Used(a) /\ TypesOf(p2) = TypesOf(p1) \cup TypesOf(a)
  BY <1>5, <1>11, PlanGrows
<1> HIDE DEF p2
<1>13. /\ p3 \in Seq(Operators) /\ p3 # <<>> /\ p3[1] = p2[1]
       /\ Above(p3) = Above(p2) \cup Used(Filters(s.having))
       /\ TypesOf(p3) = TypesOf(p2) \cup TypesOf(Filters(s.having))
  BY <1>3, <1>12, PlanGrows
<1> HIDE DEF p3
<1>14. /\ p4 \in Seq(Operators) /\ p4 # <<>> /\ p4[1] = p3[1]
       /\ Above(p4) = Above(p3) \cup Used(b) /\ TypesOf(p4) = TypesOf(p3) \cup TypesOf(b)
  BY <1>6, <1>13, PlanGrows
<1> HIDE DEF p4
<1>15. /\ p5 \in Seq(Operators) /\ p5 # <<>> /\ p5[1] = p4[1]
       /\ Above(p5) = Above(p4) \cup Used(c) /\ TypesOf(p5) = TypesOf(p4) \cup TypesOf(c)
  BY <1>7, <1>14, PlanGrows
<1> HIDE DEF p5
<1>16. /\ p6 \in Seq(Operators) /\ p6 # <<>> /\ p6[1] = p5[1]
       /\ Above(p6) = Above(p5) \cup Used(d) /\ TypesOf(p6) = TypesOf(p5) \cup TypesOf(d)
  BY <1>8, <1>15, PlanGrows
<1> HIDE DEF p6
<1>17. p6[1] = Scan(SelectColumns(s))
  BY <1>10, <1>11, <1>12, <1>13, <1>14, <1>15, <1>16
<1>18. Above(p6) = {} \cup ColumnsOf(s.where) \cup Used(a) \cup ColumnsOf(s.having)
                    \cup Used(b) \cup Used(c) \cup {}
  BY <1>3, <1>8, <1>10, <1>11, <1>12, <1>13, <1>14, <1>15, <1>16
<1>19. Above(p6) = SelectColumns(s)
  <2>1. Used(c) = ColumnsOf(s.order)
    BY <1>7, NothingUsed
  <2>2. Used(a) \cup Used(b) = ColumnsOf(s.items) \cup ColumnsOf(s.group)
    <3>1. ~Aggregates(s) => ColumnsOf(s.group) = {}
      BY NothingUsed DEF Aggregates
    <3> QED
      BY <1>5, <1>6, <3>1
  <2>3. SelectColumns(s) = ColumnsOf(s.items) \cup ColumnsOf(s.where) \cup ColumnsOf(s.group)
                             \cup ColumnsOf(s.having) \cup ColumnsOf(s.order)
    BY DEF SelectColumns
  <2> QED
    BY <1>18, <2>1, <2>2, <2>3
<1>20. TypesOf(p6) \subseteq {"scan", "filter", "aggregate", "project", "sort", "limit_offset"}
  BY <1>3, <1>5, <1>6, <1>7, <1>8, <1>10, <1>11, <1>12, <1>13, <1>14, <1>15, <1>16
<1> QED
  BY <1>1, <1>9, <1>16, <1>17, <1>19, <1>20 DEF Scans

(* What the two planners make of a condition and of a target.              *)
LEMMA FiltersCopied ==
  ASSUME NEW w \in Optional(Trees)
  PROVE  [i \in DOMAIN w |-> Operator("filter", <<>>, <<Copy(w[i])>>)] = Filters(w)
<1>1. w \in Seq(Trees)
  BY OptionalFacts
<1>2. \A i \in DOMAIN w : w[i] \in Trees
  BY <1>1
<1>3. \A i \in DOMAIN w : Copy(w[i]) = Clone(w[i])
  BY <1>2, CopiesAreSame
<1> QED
  BY <1>3 DEF Filters

(* A copy of an operator is the same operator.                             *)
LEMMA CopiedOperator ==
  ASSUME NEW op \in Operators
  PROVE  /\ [op EXCEPT !.items = Copies(@), !.groups = Copies(@)] = op
         /\ [op EXCEPT !.items = Copies(@)] = op
         /\ Copies(op.items) = op.items
<1>1. op.items \in Seq(Trees) /\ op.groups \in Seq(Trees)
  BY DEF Operators
<1>2. Copies(op.items) = op.items /\ Copies(op.groups) = op.groups
  BY <1>1, ListFacts
<1> QED
  BY <1>2 DEF Operators

(* The last operator of a plan.                                            *)
LEMMA PlanEnds ==
  ASSUME NEW p \in Seq(Operators), NEW op \in Operators
  PROVE  /\ Len(p \o <<op>>) = Len(p) + 1 /\ Root(p \o <<op>>) = op
         /\ (p \o <<op>>)[Len(p) + 1] = op
         /\ \A i \in 1..Len(p) : (p \o <<op>>)[i] = p[i]
<1>1. Append(p, op) = p \o <<op>>
  BY AppendIsConcat
<1> DEFINE t == Append(p, op)
<1>2. Len(t) = Len(p) + 1 /\ t[Len(p) + 1] = op /\ \A i \in 1..Len(p) : t[i] = p[i]
  OBVIOUS
<1>3. Root(t) = op
  <2> HIDE DEF t
  <2> QED
    BY <1>2 DEF Root
<1> HIDE DEF t
<1>4. t = p \o <<op>>
  BY <1>1 DEF t
<1> QED
  BY <1>2, <1>3, <1>4

(* The plans that end with a change: a scan, a filter for the condition    *)
(* that there is, and the change.                                          *)
Changes(a, w, op) == <<a>> \o Filters(w) \o <<op>>

(* What such a plan works with, and what PhysicalUpdate and                *)
(* PhysicalDelete find in it.                                              *)
LEMMA ChangesFacts ==
  ASSUME NEW a \in Operators, NEW w \in Optional(Trees), NEW op \in Operators,
         op.type \in {"update", "delete"}
  PROVE  /\ Changes(a, w, op) \in Seq(Operators) /\ Changes(a, w, op) # <<>>
         /\ Changes(a, w, op)[1] = a /\ Root(Changes(a, w, op)) = op
         /\ Above(Changes(a, w, op)) = ColumnsOf(w) \cup Uses(op)
         /\ WhereOf(Changes(a, w, op)) = w
<1> DEFINE f == Operator("filter", <<>>, w)
           plan == Changes(a, w, op)
<1>1. /\ Filters(w) = IF w = <<>> THEN <<>> ELSE <<f>>
      /\ Filters(w) \in Seq(Operators) /\ Used(Filters(w)) = ColumnsOf(w)
      /\ f \in Operators
  BY FiltersFacts
<1>2. f.type = "filter" /\ f.items = w
  BY DEF Operator
<1>3. /\ <<a>> \in Seq(Operators) /\ Above(<<a>>) = {}
      /\ <<op>> \in Seq(Operators) /\ Used(<<op>>) = Uses(op)
  BY OneOperator
<1> DEFINE p == <<a>> \o Filters(w)
<1>4. p \in Seq(Operators) /\ p # <<>> /\ p[1] = a /\ Above(p) = ColumnsOf(w)
  <2> DEFINE z == <<a>>
  <2>1. z # <<>> /\ z[1] = a /\ z \in Seq(Operators) /\ Above(z) = {}
    BY <1>3
  <2> HIDE DEF z
  <2>2. z \o Filters(w) \in Seq(Operators) /\ z \o Filters(w) # <<>> /\ (z \o Filters(w))[1] = z[1]
        /\ Above(z \o Filters(w)) = Above(z) \cup Used(Filters(w))
    BY <1>1, <2>1, PlanGrows
  <2> QED
    BY <1>1, <2>1, <2>2 DEF z
<1> HIDE DEF p
<1>5. /\ p \o <<op>> \in Seq(Operators) /\ p \o <<op>> # <<>> /\ (p \o <<op>>)[1] = p[1]
      /\ Above(p \o <<op>>) = Above(p) \cup Used(<<op>>)
  BY <1>3, <1>4, PlanGrows
<1>6. plan = p \o <<op>>
  BY DEF p, Changes
<1>7. Root(plan) = op /\ WhereOf(plan) = w
  <2>1. /\ Len(p \o <<op>>) = Len(p) + 1 /\ Root(p \o <<op>>) = op
        /\ (p \o <<op>>)[Len(p) + 1] = op
        /\ \A i \in 1..Len(p) : (p \o <<op>>)[i] = p[i]
    BY <1>4, PlanEnds
  <2> HIDE DEF plan
  <2>2. /\ Len(plan) = Len(p) + 1 /\ Root(plan) = op /\ plan[Len(p) + 1] = op
        /\ \A i \in 1..Len(p) : plan[i] = p[i]
    BY <1>6, <2>1
  <2>3. CASE w = <<>>
    <3>1. p = <<a>> \o <<>>
      BY <1>1, <2>3 DEF p
    <3> DEFINE z == <<a>>
    <3>2. z \o <<>> = z /\ Len(z) = 1
      BY <1>3
    <3>3. Len(p) = 1
      BY <3>1, <3>2
    <3>4. plan[2] = op
      BY <2>2, <3>3
    <3>5. op.type # "filter"
      OBVIOUS
    <3> QED
      BY <2>2, <2>3, <3>4, <3>5 DEF WhereOf
  <2>4. CASE w # <<>>
    <3> HIDE DEF f
    <3>1. p = <<a>> \o <<f>>
      BY <1>1, <2>4 DEF p
    <3> DEFINE z == <<a>>
    <3>2. z \in Seq(Operators) /\ Len(z) = 1
      BY <1>3
    <3> HIDE DEF z
    <3>3. Len(z \o <<f>>) = Len(z) + 1 /\ (z \o <<f>>)[Len(z) + 1] = f
      BY <1>1, <3>2, PlanEnds
    <3>4. Len(p) = 2 /\ p[2] = f
      BY <3>1, <3>2, <3>3 DEF z
    <3>5. 2 \in 1..Len(p)
      BY <3>4
    <3>6. plan[2] = f
      BY <2>2, <3>4, <3>5
    <3> QED
      BY <1>2, <2>2, <3>6 DEF WhereOf
  <2> QED
    BY <2>2, <2>3, <2>4
<1> HIDE DEF plan
<1>8. plan \in Seq(Operators) /\ plan # <<>> /\ plan[1] = a /\ Above(plan) = ColumnsOf(w) \cup Uses(op)
  BY <1>3, <1>4, <1>5, <1>6
<1> QED
  BY <1>7, <1>8 DEF plan

(* A DELETE scans the columns of its condition, and is mirrored.           *)
LEMMA DeleteMirrors ==
  ASSUME NEW s \in Deletes
  PROVE  Scans(LogicalPlan(s)) /\ PhysicalPlan(LogicalPlan(s)) = LogicalPlan(s)
<1> DEFINE op == Operator("delete", <<>>, <<>>)
           S == ColumnsOf(s.where)
           plan == Changes(Scan(S), s.where, op)
<1>1. s.kind = "delete" /\ s.where \in Optional(Trees)
  BY DEF Deletes
<1>2. s.where \in Seq(Trees)
  BY <1>1, OptionalFacts
<1>3. CollectedFrom(s.where) = S /\ ReferencesFrom(s.where) = S
  BY <1>2, ListFacts
<1>4. LogicalPlan(s) = plan
  BY <1>1, <1>3 DEF LogicalPlan, PlanDelete, Changes
<1>5. op \in Operators /\ op.type = "delete" /\ Uses(op) = {}
  <2>1. "delete" \in OperatorTypes /\ <<>> \in Seq(Nat) /\ <<>> \in Seq(Trees)
    BY DEF OperatorTypes
  <2>2. Uses(op) = ColumnsOf(<<>>) \cup Range(<<>>)
    BY <2>1, OperatorUses
  <2>3. op \in Operators /\ op.type = "delete"
    BY <2>1, OperatorFacts
  <2> QED
    BY <2>2, <2>3, NothingUsed
<1>6. S \in SUBSET Nat /\ IsFiniteSet(S)
  BY <1>2, ColumnsOfFinite
<1>7. /\ Scan(S) \in Operators /\ Range(Scan(S).columns) = S
      /\ Ascends(Scan(S).columns) /\ Scan(S).columns \in Seq(Nat)
  BY <1>6, ScanFacts
<1>8. /\ plan \in Seq(Operators) /\ plan # <<>> /\ plan[1] = Scan(S) /\ Root(plan) = op
      /\ Above(plan) = ColumnsOf(s.where) \cup Uses(op) /\ WhereOf(plan) = s.where
  <2>1. op \in Operators /\ op.type \in {"update", "delete"}
    BY <1>5
  <2> HIDE DEF op, S
  <2>2. Scan(S) \in Operators /\ s.where \in Optional(Trees)
    BY <1>1, <1>7
  <2> QED
    BY <2>1, <2>2, ChangesFacts
<1>9. Above(plan) = S
  BY <1>5, <1>8
<1> HIDE DEF op, S
<1>10. Scans(plan)
  <2> HIDE DEF plan
  <2> QED
    BY <1>7, <1>8, <1>9 DEF Scans
<1>11. PhysicalDelete(plan) = plan
  <2>1. [i \in DOMAIN s.where |-> Operator("filter", <<>>, <<Copy(s.where[i])>>)] = Filters(s.where)
    BY <1>1, FiltersCopied
  <2>2. plan = <<Scan(S)>> \o Filters(s.where) \o <<op>>
    BY DEF Changes
  <2> HIDE DEF plan
  <2> QED
    BY <1>3, <1>8, <2>1, <2>2 DEF PhysicalDelete
<1>12. PhysicalPlan(plan) = PhysicalDelete(plan)
  <2> HIDE DEF plan
  <2> QED
    BY <1>5, <1>8 DEF PhysicalPlan
<1> QED
  BY <1>4, <1>10, <1>11, <1>12

(* So does an UPDATE, which besides scans the columns that it writes and   *)
(* those of the values.                                                    *)
LEMMA UpdateMirrors ==
  ASSUME NEW s \in Updates
  PROVE  Scans(LogicalPlan(s)) /\ PhysicalPlan(LogicalPlan(s)) = LogicalPlan(s)
<1> DEFINE targets == [i \in DOMAIN s.targets |-> s.targets[i].column]
           op == Operator("update", targets, s.items)
           S == ColumnsOf(s.where) \cup ColumnsOf(s.targets) \cup ColumnsOf(s.items)
           plan == Changes(Scan(S), s.where, op)
<1>1. /\ s.kind = "update" /\ s.where \in Optional(Trees) /\ s.items \in Seq(Trees)
      /\ s.targets \in Seq({e \in Trees : e.kind = "column"})
  BY DEF Updates
<1>2. s.where \in Seq(Trees)
  BY <1>1, OptionalFacts
<1>3. \A i \in DOMAIN s.targets : s.targets[i] \in Trees /\ s.targets[i].kind = "column"
  BY <1>1
<1>4. s.targets \in Seq(Trees) /\ DOMAIN s.targets = 1..Len(s.targets) /\ Len(s.targets) \in Nat
  BY <1>1, <1>3
<1>5. \A i \in DOMAIN s.targets :
        /\ s.targets[i].column \in Nat /\ s.targets[i] = Column(s.targets[i].column)
        /\ Columns(s.targets[i]) = {s.targets[i].column}
  BY <1>3, TreeFacts, ColumnsAre, ExpressionsAssumption
<1>6. /\ targets \in Seq(Nat) /\ Range(targets) = ColumnsOf(s.targets)
      /\ [i \in DOMAIN targets |-> Column(targets[i])] = s.targets
  <2>1. targets \in Seq(Nat)
    BY <1>4, <1>5
  <2>2. DOMAIN targets = DOMAIN s.targets
    OBVIOUS
  <2>3. \A i \in DOMAIN s.targets : Column(targets[i]) = s.targets[i] /\ Columns(s.targets[i]) = {targets[i]}
    BY <1>5
  <2>4. s.targets = [i \in DOMAIN s.targets |-> s.targets[i]]
    BY <1>4
  <2> HIDE DEF targets
  <2>5. [i \in DOMAIN targets |-> Column(targets[i])] = s.targets
    BY <2>2, <2>3, <2>4
  <2>6. Range(targets) = ColumnsOf(s.targets)
    BY <2>2, <2>3 DEF Range, ColumnsOf
  <2> QED
    BY <2>1, <2>5, <2>6
<1>7. /\ CollectedFrom(s.where) = ColumnsOf(s.where) /\ ReferencesFrom(s.where) = ColumnsOf(s.where)
      /\ CollectedFrom(s.items) = ColumnsOf(s.items) /\ ReferencesFrom(s.items) = ColumnsOf(s.items)
      /\ CollectedFrom(s.targets) = ColumnsOf(s.targets)
      /\ ReferencesFrom(s.targets) = ColumnsOf(s.targets)
      /\ Clones(s.items) = s.items
  BY <1>1, <1>2, <1>4, ListFacts
<1>8. LogicalPlan(s) = plan
  BY <1>1, <1>7 DEF LogicalPlan, PlanUpdate, Changes
<1> HIDE DEF targets
<1>9. /\ op \in Operators /\ op.type = "update" /\ op.columns = targets /\ op.items = s.items
      /\ Uses(op) = ColumnsOf(s.items) \cup Range(targets)
  <2>1. "update" \in OperatorTypes
    BY DEF OperatorTypes
  <2> QED
    BY <1>1, <1>6, <2>1, OperatorFacts, OperatorUses
<1>10. S \in SUBSET Nat /\ IsFiniteSet(S)
  <2>1. \A t \in Seq(Trees) : ColumnsOf(t) \in SUBSET Nat /\ IsFiniteSet(ColumnsOf(t))
    BY ColumnsOfFinite
  <2> QED
    BY <1>1, <1>2, <1>4, <2>1, FS_Union
<1>11. /\ Scan(S) \in Operators /\ Range(Scan(S).columns) = S
       /\ Ascends(Scan(S).columns) /\ Scan(S).columns \in Seq(Nat)
  <2> HIDE DEF S
  <2> QED
    BY <1>10, ScanFacts
<1>12. /\ plan \in Seq(Operators) /\ plan # <<>> /\ plan[1] = Scan(S) /\ Root(plan) = op
       /\ Above(plan) = ColumnsOf(s.where) \cup Uses(op) /\ WhereOf(plan) = s.where
  <2> HIDE DEF op, S
  <2> QED
    BY <1>1, <1>9, <1>11, ChangesFacts
<1>13. Above(plan) = S
  BY <1>6, <1>9, <1>12
<1> HIDE DEF op
<1>14. Scans(plan)
  <2> HIDE DEF plan, S
  <2> QED
    BY <1>11, <1>12, <1>13 DEF Scans
<1>15. PhysicalUpdate(plan) = plan
  <2>1. [i \in DOMAIN s.where |-> Operator("filter", <<>>, <<Copy(s.where[i])>>)] = Filters(s.where)
    BY <1>1, FiltersCopied
  <2>2. plan = <<Scan(S)>> \o Filters(s.where) \o <<op>>
    BY DEF Changes
  <2> HIDE DEF plan
  <2>3. TargetsOf(plan) = s.targets
    BY <1>6, <1>9, <1>12 DEF TargetsOf
  <2>4. [op EXCEPT !.items = Copies(@)] = op
    BY <1>9, CopiedOperator
  <2>5. ReferencesFrom(WhereOf(plan)) \cup ReferencesFrom(TargetsOf(plan))
          \cup ReferencesFrom(Root(plan).items) = S
    BY <1>7, <1>9, <1>12, <2>3
  <2> HIDE DEF S
  <2> QED
    BY <1>12, <2>1, <2>2, <2>4, <2>5 DEF PhysicalUpdate
<1>16. PhysicalPlan(plan) = PhysicalUpdate(plan)
  <2> HIDE DEF plan
  <2> QED
    BY <1>9, <1>12 DEF PhysicalPlan
<1> QED
  BY <1>8, <1>14, <1>15, <1>16

(* A SELECT is copied node for node.                                       *)
LEMMA SelectMirrors ==
  ASSUME NEW s \in Selects
  PROVE  /\ PhysicalPlan(LogicalPlan(s)) = LogicalPlan(s)
         /\ Root(LogicalPlan(s)).type \notin {"update", "delete"}
<1> DEFINE plan == LogicalPlan(s)
<1>1. /\ plan \in Seq(Operators) /\ plan # <<>>
      /\ TypesOf(plan) \subseteq {"scan", "filter", "aggregate", "project", "sort", "limit_offset"}
  BY SelectScans DEF Scans
<1> HIDE DEF plan
<1>2. Len(plan) \in DOMAIN plan /\ \A i \in DOMAIN plan : plan[i] \in Operators
  BY <1>1
<1>3. Root(plan).type \in TypesOf(plan)
  BY <1>2 DEF Root, TypesOf
<1>4. Root(plan).type \notin {"update", "delete"}
  BY <1>1, <1>3
<1>5. PhysicalSelect(plan) = plan
  <2>1. \A i \in DOMAIN plan :
          [plan[i] EXCEPT !.items = Copies(@), !.groups = Copies(@)] = plan[i]
    BY <1>2, CopiedOperator
  <2>2. plan = [i \in DOMAIN plan |-> plan[i]]
    BY <1>1
  <2> QED
    BY <2>1, <2>2 DEF PhysicalSelect
<1>6. PhysicalPlan(plan) = PhysicalSelect(plan)
  BY <1>4 DEF PhysicalPlan
<1> QED
  BY <1>4, <1>5, <1>6 DEF plan

(* The rows after each operator of a plan, up to the n-th.                 *)
Runs(after, plan, entities, n) ==
  /\ after[0] = <<>>
  /\ \A i \in 1..n : after[i] = Executed(plan[i], after[i - 1], entities)

(* The recursive function of RowsOf exists: one that is right up to an     *)
(* operator can be made right up to the next.                              *)
LEMMA RowsRun ==
  ASSUME NEW plan, Len(plan) \in Nat, NEW entities
  PROVE  \E after : /\ Runs(after, plan, entities, Len(plan))
                    /\ RowsOf(plan, entities) = after[Len(plan)]
<1> DEFINE N == Len(plan)
           Step(f, i) == IF i = 0 THEN <<>> ELSE Executed(plan[i], f[i - 1], entities)
           Right(f, k) == \A i \in 0..k : f[i] = Step(f, i)
           Bad == {k \in 0..N : ~\E f : Right(f, k)}
<1>1. N \in Nat
  OBVIOUS
<1>2. Bad = {}
  <2> SUFFICES ASSUME Bad # {} PROVE FALSE
    OBVIOUS
  <2>1. PICK k \in Bad : \A j \in Bad : k <= j
    <3>1. Bad \in SUBSET Nat
      BY <1>1
    <3> HIDE DEF Bad
    <3> QED
      BY <3>1, LeastExists
  <2>2. CASE k = 0
    <3> DEFINE f == [i \in {0} |-> <<>>]
    <3>1. Right(f, 0)
      OBVIOUS
    <3> QED
      BY <2>2, <3>1
  <2>3. CASE k # 0
    <3>1. k \in 0..N /\ k - 1 \in 0..N /\ k - 1 \notin Bad
      <4>1. k \in 0..N
        BY <2>1
      <4> HIDE DEF Bad, N
      <4>2. k - 1 \in 0..N /\ ~(k <= k - 1)
        BY <1>1, <2>3, <4>1
      <4> QED
        BY <2>1, <4>1, <4>2
    <3>2. PICK f : Right(f, k - 1)
      BY <3>1
    <3> DEFINE g == [i \in 0..k |-> IF i = k THEN Step(f, k) ELSE f[i]]
    <3>3. \A i \in 0..k : g[i] = IF i = k THEN Step(f, k) ELSE f[i]
      OBVIOUS
    <3> HIDE DEF g
    <3>4. ASSUME NEW i \in 0..k PROVE g[i] = Step(g, i)
      <4>1. i # 0 => i - 1 \in 0..k /\ i - 1 # k
        BY <1>1, <3>1
      <4>2. Step(g, i) = Step(f, i)
        BY <3>3, <4>1
      <4>3. i # k => i \in 0..(k - 1)
        BY <3>1
      <4>4. i # k => f[i] = Step(f, i)
        BY <3>2, <4>3
      <4> HIDE DEF Step
      <4> QED
        BY <3>3, <4>2, <4>4
    <3>5. Right(g, k)
      BY <3>4
    <3>6. k \notin Bad
      <4> HIDE DEF Right
      <4> QED
        BY <3>5
    <3> QED
      BY <2>1, <3>6
  <2> QED
    BY <2>2, <2>3
<1>3. PICK f : Right(f, N)
  <2> HIDE DEF Right
  <2>1. N \in 0..N /\ N \notin Bad
    BY <1>1, <1>2
  <2> QED
    BY <2>1
<1> DEFINE g == [i \in 0..N |-> f[i]]
           Body(h) == [i \in 0..N |-> Step(h, i)]
<1>4. g = Body(g)
  <2>1. \A i \in 0..N : f[i] = Step(g, i)
    <3> SUFFICES ASSUME NEW i \in 0..N PROVE f[i] = Step(g, i)
      OBVIOUS
    <3>1. i # 0 => i - 1 \in 0..N
      BY <1>1
    <3>2. Step(f, i) = Step(g, i)
      BY <3>1
    <3> HIDE DEF Step, g
    <3> QED
      BY <1>3, <3>2
  <2> HIDE DEF Step
  <2> QED
    BY <2>1
<1> DEFINE after == CHOOSE h : h = Body(h)
<1>5. after = Body(after)
  <2>1. \E h : h = Body(h)
    <3> HIDE DEF g, Body
    <3> QED
      BY <1>4
  <2> HIDE DEF Body
  <2> QED
    BY <2>1
<1>6. RowsOf(plan, entities) = after[N]
  BY DEF RowsOf
<1> HIDE DEF after
<1>7. \A i \in 0..N : after[i] = Step(after, i)
  BY <1>5
<1>8. after[0] = <<>> /\ \A i \in 1..N : after[i] = Executed(plan[i], after[i - 1], entities)
  BY <1>1, <1>7
<1>9. Runs(after, plan, entities, N)
  BY <1>8 DEF Runs
<1> QED
  BY <1>6, <1>9

(* There is one way to run the same operators.                             *)
LEMMA RunsAgree ==
  ASSUME NEW n \in Nat, NEW f, NEW g, NEW p, NEW q, NEW entities,
         Runs(f, p, entities, n), Runs(g, q, entities, n), \A i \in 1..n : p[i] = q[i]
  PROVE  f[n] = g[n]
<1> DEFINE Bad == {k \in 0..n : f[k] # g[k]}
<1> SUFFICES ASSUME Bad # {} PROVE FALSE
  OBVIOUS
<1>1. PICK k \in Bad : \A j \in Bad : k <= j
  <2>1. Bad \in SUBSET Nat
    OBVIOUS
  <2> HIDE DEF Bad
  <2> QED
    BY <2>1, LeastExists
<1>2. k \in 0..n /\ f[k] # g[k]
  OBVIOUS
<1>3. k # 0
  BY <1>2 DEF Runs
<1>4. k \in 1..n /\ k - 1 \in 0..n /\ ~(k <= k - 1)
  BY <1>2, <1>3
<1>5. f[k - 1] = g[k - 1]
  BY <1>1, <1>4
<1>6. f[k] = Executed(p[k], f[k - 1], entities) /\ g[k] = Executed(q[k], g[k - 1], entities)
  BY <1>4 DEF Runs
<1> QED
  BY <1>2, <1>4, <1>5, <1>6

(* One operator more.                                                      *)
LEMMA RowsGrow ==
  ASSUME NEW p \in Seq(Operators), NEW op \in Operators, NEW entities
  PROVE  RowsOf(p \o <<op>>, entities) = Executed(op, RowsOf(p, entities), entities)
<1> DEFINE t == p \o <<op>>
           n == Len(p)
<1>1. n \in Nat
  OBVIOUS
<1>2. Len(t) = n + 1 /\ t[n + 1] = op /\ \A i \in 1..n : t[i] = p[i]
  BY PlanEnds
<1> HIDE DEF t
<1>3. PICK f : Runs(f, p, entities, Len(p)) /\ RowsOf(p, entities) = f[Len(p)]
  <2>1. Len(p) \in Nat
    OBVIOUS
  <2> HIDE DEF n
  <2> QED
    BY <2>1, RowsRun
<1>4. PICK g : Runs(g, t, entities, Len(t)) /\ RowsOf(t, entities) = g[Len(t)]
  <2>1. Len(t) \in Nat
    BY <1>1, <1>2
  <2> QED
    BY <2>1, RowsRun
<1> HIDE DEF n
<1>5. Runs(g, t, entities, n)
  <2>1. \A i \in 1..n : i \in 1..Len(t)
    BY <1>1, <1>2
  <2> QED
    BY <1>4, <2>1 DEF Runs
<1>6. f[n] = g[n]
  <2>1. Runs(f, p, entities, n)
    BY <1>3 DEF n
  <2> QED
    BY <1>1, <1>2, <1>5, <2>1, RunsAgree
<1>7. g[n + 1] = Executed(op, g[n], entities)
  <2>1. n + 1 \in 1..Len(t) /\ (n + 1) - 1 = n
    BY <1>1, <1>2
  <2> QED
    BY <1>2, <1>4, <2>1 DEF Runs
<1> QED
  BY <1>2, <1>3, <1>4, <1>6, <1>7 DEF t, n

(* The rows of a scan alone.                                               *)
LEMMA RowsOfOne ==
  ASSUME NEW op \in Operators, NEW entities
  PROVE  RowsOf(<<op>>, entities) = Executed(op, <<>>, entities)
<1> DEFINE p == <<op>>
<1>1. Len(p) = 1 /\ p[1] = op
  OBVIOUS
<1> HIDE DEF p
<1>2. PICK f : Runs(f, p, entities, 1) /\ RowsOf(p, entities) = f[1]
  <2>1. Len(p) \in Nat
    BY <1>1
  <2>2. \E f : Runs(f, p, entities, Len(p)) /\ RowsOf(p, entities) = f[Len(p)]
    BY <2>1, RowsRun
  <2> QED
    BY <1>1, <2>2
<1>3. f[1] = Executed(p[1], f[0], entities) /\ f[0] = <<>>
  <2>1. 1 \in 1..1 /\ 1 - 1 = 0
    OBVIOUS
  <2> QED
    BY <1>2, <2>1 DEF Runs
<1> QED
  BY <1>1, <1>2, <1>3 DEF p

(* One operator more, if its clause is there.                              *)
LEMMA RowsMaybe ==
  ASSUME NEW p \in Seq(Operators), NEW c \in BOOLEAN, NEW op \in Operators, NEW entities
  PROVE  RowsOf(p \o Maybe(c, op), entities) =
           IF c THEN Executed(op, RowsOf(p, entities), entities) ELSE RowsOf(p, entities)
<1>1. CASE c
  <2>1. Maybe(c, op) = <<op>>
    BY <1>1 DEF Maybe
  <2> QED
    BY <1>1, <2>1, RowsGrow
<1>2. CASE ~c
  <2>1. Maybe(c, op) = <<>>
    BY <1>2 DEF Maybe
  <2>2. p \o <<>> = p
    OBVIOUS
  <2> QED
    BY <1>2, <2>1, <2>2
<1> QED
  BY <1>1, <1>2

(* Filters let all rows pass.                                              *)
LEMMA RowsFiltered ==
  ASSUME NEW p \in Seq(Operators), NEW w \in Optional(Trees), NEW entities
  PROVE  RowsOf(p \o Filters(w), entities) = RowsOf(p, entities)
<1> DEFINE op == Operator("filter", <<>>, w)
<1>1. Filters(w) = (IF w = <<>> THEN <<>> ELSE <<op>>) /\ op \in Operators
  BY FiltersFacts
<1>2. op.type = "filter"
  BY DEF Operator
<1> HIDE DEF op
<1>3. CASE w = <<>>
  <2>1. p \o <<>> = p
    OBVIOUS
  <2> QED
    BY <1>1, <1>3, <2>1
<1>4. CASE w # <<>>
  <2>1. RowsOf(p \o <<op>>, entities) = Executed(op, RowsOf(p, entities), entities)
    BY <1>1, RowsGrow
  <2>2. Executed(op, RowsOf(p, entities), entities) = RowsOf(p, entities)
    BY <1>2 DEF Executed
  <2> QED
    BY <1>1, <1>4, <2>1, <2>2
<1> QED
  BY <1>3, <1>4

(* LIMIT and OFFSET.                                                       *)
FirstAt(offset) == IF offset = <<>> THEN 1 ELSE offset[1] + 1
Chosen(n, limit, offset) ==
  {i \in FirstAt(offset)..n : limit # <<>> => i < FirstAt(offset) + limit[1]}

(* The rows are those from the offset on, as many as the limit allows.     *)
LEMMA WindowFacts ==
  ASSUME NEW S, NEW rows \in Seq(S), NEW limit \in Optional(Nat), NEW offset \in Optional(Nat)
  PROVE  /\ Len(Window(rows, limit, offset)) = Cardinality(Chosen(Len(rows), limit, offset))
         /\ \A i \in 1..Len(Window(rows, limit, offset)) :
              /\ FirstAt(offset) + i - 1 \in 1..Len(rows)
              /\ Window(rows, limit, offset)[i] = rows[FirstAt(offset) + i - 1]
<1> DEFINE skipped == IF offset = <<>> THEN 0 ELSE offset[1]
           n == Len(rows)
           rest == IF skipped >= n THEN <<>> ELSE SubSeq(rows, skipped + 1, n)
           w == IF limit # <<>> /\ limit[1] < Len(rest) THEN SubSeq(rest, 1, limit[1]) ELSE rest
<1>1. Window(rows, limit, offset) = w
  BY DEF Window
<1>2. offset # <<>> => offset[1] \in Nat
  BY OptionalFacts
<1>3. limit # <<>> => limit[1] \in Nat
  BY OptionalFacts
<1>4. n \in Nat /\ skipped \in Nat
  BY <1>2
<1>5. FirstAt(offset) = skipped + 1
  BY <1>4 DEF FirstAt
<1>6. /\ rest \in Seq(S) /\ Len(rest) = IF skipped >= n THEN 0 ELSE n - skipped
      /\ \A i \in 1..Len(rest) : skipped + i \in 1..n /\ rest[i] = rows[skipped + i]
  <2>1. CASE skipped >= n
    <3>1. rest = <<>>
      BY <2>1
    <3> HIDE DEF rest
    <3> QED
      BY <2>1, <3>1
  <2>2. CASE ~(skipped >= n)
    <3> HIDE DEF skipped
    <3>1. rest = SubSeq(rows, skipped + 1, n)
      BY <2>2
    <3>2. skipped + 1 \in 1..n + 1 /\ n \in 0..n /\ skipped + 1 <= n
      BY <1>4, <2>2
    <3>3. /\ SubSeq(rows, skipped + 1, n) \in Seq(S)
          /\ Len(SubSeq(rows, skipped + 1, n)) = n - (skipped + 1) + 1
          /\ \A i \in 1..n - (skipped + 1) + 1 :
               SubSeq(rows, skipped + 1, n)[i] = rows[skipped + 1 + i - 1]
      BY <3>2, SubSeqProperties
    <3> HIDE DEF rest, n
    <3>4. Len(rest) = n - skipped /\ rest \in Seq(S)
      BY <1>4, <3>1, <3>3
    <3>5. \A i \in 1..n - skipped : skipped + i \in 1..n /\ rest[i] = rows[skipped + i]
      <4> SUFFICES ASSUME NEW i \in 1..n - skipped
                   PROVE  skipped + i \in 1..n /\ rest[i] = rows[skipped + i]
        OBVIOUS
      <4>1. i \in 1..n - (skipped + 1) + 1 /\ skipped + 1 + i - 1 = skipped + i
        BY <1>4
      <4>2. skipped + i \in 1..n
        BY <1>4
      <4> QED
        BY <3>1, <3>3, <4>1, <4>2
    <3> QED
      BY <2>2, <3>4, <3>5
  <2> QED
    BY <2>1, <2>2
<1> HIDE DEF skipped, n, rest
<1>7. \A i \in 1..Len(rest) : FirstAt(offset) + i - 1 \in 1..n /\ rest[i] = rows[FirstAt(offset) + i - 1]
  <2> SUFFICES ASSUME NEW i \in 1..Len(rest)
               PROVE  FirstAt(offset) + i - 1 \in 1..n /\ rest[i] = rows[FirstAt(offset) + i - 1]
    OBVIOUS
  <2>1. FirstAt(offset) + i - 1 = skipped + i
    BY <1>4, <1>5
  <2> QED
    BY <1>6, <2>1
<1>8. Len(rest) \in Nat
  BY <1>6
<1>9. Chosen(n, limit, offset) =
        {i \in skipped + 1..n : limit # <<>> => i < skipped + 1 + limit[1]}
  BY <1>5 DEF Chosen
<1>10. CASE limit # <<>> /\ limit[1] < Len(rest)
  <2> DEFINE m == limit[1]
  <2>1. w = SubSeq(rest, 1, m)
    BY <1>10
  <2>2. m \in Nat /\ m < Len(rest) /\ m \in 0..Len(rest) /\ 1 \in 1..Len(rest) + 1
    BY <1>3, <1>8, <1>10
  <2> HIDE DEF m, w
  <2>3. /\ Len(SubSeq(rest, 1, m)) = IF 1 <= m THEN m - 1 + 1 ELSE 0
        /\ \A i \in 1..m - 1 + 1 : SubSeq(rest, 1, m)[i] = rest[1 + i - 1]
    BY <1>6, <2>2, SubSeqProperties
  <2>4. Len(w) = m
    BY <2>1, <2>2, <2>3
  <2>5. \A i \in 1..m : w[i] = rest[i] /\ i \in 1..Len(rest)
    <3> SUFFICES ASSUME NEW i \in 1..m PROVE w[i] = rest[i] /\ i \in 1..Len(rest)
      OBVIOUS
    <3>1. i \in 1..m - 1 + 1 /\ 1 + i - 1 = i /\ i \in 1..Len(rest)
      BY <1>8, <2>2
    <3> QED
      BY <2>1, <2>3, <3>1
  <2>6. n - skipped > m /\ ~(skipped >= n)
    BY <1>4, <1>6, <2>2
  <2>7. Chosen(n, limit, offset) = skipped + 1..skipped + m
    <3>1. Chosen(n, limit, offset) = {i \in skipped + 1..n : i < skipped + 1 + m}
      BY <1>9, <1>10 DEF m
    <3>2. \A i \in Int : (i \in skipped + 1..n /\ i < skipped + 1 + m) <=> i \in skipped + 1..skipped + m
      BY <1>4, <2>2, <2>6
    <3> QED
      BY <3>1, <3>2
  <2>8. Cardinality(skipped + 1..skipped + m) = m
    <3>1. skipped + 1 \in Int /\ skipped + m \in Int
      BY <1>4, <2>2
    <3>2. Cardinality(skipped + 1..skipped + m) =
            IF skipped + 1 > skipped + m THEN 0 ELSE (skipped + m) - (skipped + 1) + 1
      BY <3>1, FS_Interval
    <3> QED
      BY <1>4, <2>2, <3>2
  <2> QED
    BY <1>1, <1>7, <2>4, <2>5, <2>7, <2>8 DEF n
<1>11. CASE ~(limit # <<>> /\ limit[1] < Len(rest))
  <2>1. w = rest
    BY <1>11
  <2> HIDE DEF w
  <2>2. Chosen(n, limit, offset) = skipped + 1..n
    <3>1. \A i \in skipped + 1..n : limit # <<>> => i < skipped + 1 + limit[1]
      <4> SUFFICES ASSUME NEW i \in skipped + 1..n, limit # <<>> PROVE i < skipped + 1 + limit[1]
        OBVIOUS
      <4>1. limit[1] \in Nat /\ limit[1] >= Len(rest)
        BY <1>3, <1>8, <1>11
      <4>2. Len(rest) = n - skipped
        BY <1>4, <1>6
      <4> QED
        BY <1>4, <4>1, <4>2
    <3> QED
      BY <1>9, <3>1
  <2>3. Cardinality(skipped + 1..n) = Len(rest)
    <3>1. skipped + 1 \in Int /\ n \in Int
      BY <1>4
    <3>2. Cardinality(skipped + 1..n) = IF skipped + 1 > n THEN 0 ELSE n - (skipped + 1) + 1
      BY <3>1, FS_Interval
    <3> QED
      BY <1>4, <1>6, <3>2
  <2> QED
    BY <1>1, <1>7, <2>1, <2>2, <2>3 DEF n
<1> QED
  BY <1>10, <1>11

(* What the rows of a SELECT are before LIMIT and OFFSET.                  *)
ItemRow(s, columns, entity) ==
  [j \in DOMAIN s.items |-> RowValue(s.items[j], ScannedRow(columns, entity))]
ItemRows(s, entities) ==
  IF Aggregates(s) THEN <<>>
  ELSE [i \in DOMAIN entities |-> ItemRow(s, Scan(SelectColumns(s)).columns, entities[i])]

(* The rows of a SELECT are its items, row by row, between OFFSET and      *)
(* LIMIT.                                                                  *)
LEMMA SelectRows ==
  ASSUME NEW s \in Selects, NEW entities
  PROVE  RowsOf(LogicalPlan(s), entities) =
           IF s.limit # <<>> \/ s.offset # <<>>
           THEN Window(ItemRows(s, entities), s.limit, s.offset) ELSE ItemRows(s, entities)
<1> DEFINE L == s.limit # <<>> \/ s.offset # <<>>
           a == Maybe(Aggregates(s), AggregateOf(s))
           b == Maybe(~Aggregates(s), ProjectOf(s))
           c == Maybe(s.order # <<>>, SortOf(s))
           d == Maybe(L, LimitOf(s))
           columns == Scan(SelectColumns(s)).columns
           p0 == <<Scan(SelectColumns(s))>>
           p1 == p0 \o Filters(s.where)
           p2 == p1 \o a
           p3 == p2 \o Filters(s.having)
           p4 == p3 \o b
           p5 == p4 \o c
           p6 == p5 \o d
           scanned == [i \in DOMAIN entities |-> ScannedRow(columns, entities[i])]
<1>1. LogicalPlan(s) = p6
  BY SelectPlanIs
<1>2. s.where \in Optional(Trees) /\ s.having \in Optional(Trees)
  BY SelectTypes
<1>3. Filters(s.where) \in Seq(Operators) /\ Filters(s.having) \in Seq(Operators)
  BY <1>2, FiltersFacts
<1>4. Aggregates(s) \in BOOLEAN /\ (s.order # <<>>) \in BOOLEAN /\ L \in BOOLEAN
  BY DEF Aggregates, HasAggregate
<1>5. /\ AggregateOf(s) \in Operators /\ AggregateOf(s).type = "aggregate"
      /\ ProjectOf(s) \in Operators /\ ProjectOf(s).type = "project"
      /\ ProjectOf(s).items = s.items
      /\ SortOf(s) \in Operators /\ SortOf(s).type = "sort"
      /\ LimitOf(s) \in Operators /\ LimitOf(s).type = "limit_offset"
      /\ LimitOf(s).limit = s.limit /\ LimitOf(s).offset = s.offset
  BY SelectOperators
<1>6. a \in Seq(Operators) /\ b \in Seq(Operators) /\ c \in Seq(Operators)
  BY <1>4, <1>5, MaybeFacts
<1>7. Scan(SelectColumns(s)) \in Operators /\ Scan(SelectColumns(s)).type = "scan"
  BY SelectColumnsFinite, ScanFacts
<1>8. p0 \in Seq(Operators) /\ RowsOf(p0, entities) = scanned
  <2>1. RowsOf(p0, entities) = Executed(Scan(SelectColumns(s)), <<>>, entities)
    BY <1>7, RowsOfOne
  <2>2. Executed(Scan(SelectColumns(s)), <<>>, entities) = scanned
    BY <1>7 DEF Executed
  <2> QED
    BY <1>7, <2>1, <2>2
<1> HIDE DEF p0, scanned, L
<1>9. p1 \in Seq(Operators) /\ RowsOf(p1, entities) = scanned
  BY <1>2, <1>3, <1>8, RowsFiltered
<1> HIDE DEF p1
<1> DEFINE r2 == IF Aggregates(s) THEN <<>> ELSE scanned
<1>10. p2 \in Seq(Operators) /\ RowsOf(p2, entities) = r2
  <2>1. Executed(AggregateOf(s), scanned, entities) = <<>>
    BY <1>5 DEF Executed
  <2>2. RowsOf(p2, entities) =
          IF Aggregates(s) THEN Executed(AggregateOf(s), RowsOf(p1, entities), entities)
          ELSE RowsOf(p1, entities)
    BY <1>4, <1>5, <1>9, RowsMaybe
  <2> QED
    BY <1>6, <1>9, <2>1, <2>2
<1> HIDE DEF p2, a
<1>11. p3 \in Seq(Operators) /\ RowsOf(p3, entities) = r2
  BY <1>2, <1>3, <1>10, RowsFiltered
<1> HIDE DEF p3
<1>12. p4 \in Seq(Operators) /\ RowsOf(p4, entities) = ItemRows(s, entities)
  <2>1. Executed(ProjectOf(s), scanned, entities) =
          [i \in DOMAIN entities |-> ItemRow(s, columns, entities[i])]
    <3>1. Executed(ProjectOf(s), scanned, entities) =
            [i \in DOMAIN scanned |-> [j \in DOMAIN s.items |-> RowValue(s.items[j], scanned[i])]]
      BY <1>5 DEF Executed
    <3>2. DOMAIN scanned = DOMAIN entities
          /\ \A i \in DOMAIN entities : scanned[i] = ScannedRow(columns, entities[i])
      BY DEF scanned
    <3> QED
      BY <3>1, <3>2 DEF ItemRow
  <2>2. RowsOf(p4, entities) =
          IF ~Aggregates(s) THEN Executed(ProjectOf(s), RowsOf(p3, entities), entities)
          ELSE RowsOf(p3, entities)
    <3>1. (~Aggregates(s)) \in BOOLEAN
      OBVIOUS
    <3> QED
      BY <1>5, <1>11, <3>1, RowsMaybe
  <2> QED
    BY <1>6, <1>11, <2>1, <2>2 DEF ItemRows
<1> HIDE DEF p4, b, r2
<1>13. p5 \in Seq(Operators) /\ RowsOf(p5, entities) = ItemRows(s, entities)
  <2>1. Executed(SortOf(s), ItemRows(s, entities), entities) = ItemRows(s, entities)
    BY <1>5 DEF Executed
  <2>2. RowsOf(p5, entities) =
          IF s.order # <<>> THEN Executed(SortOf(s), RowsOf(p4, entities), entities)
          ELSE RowsOf(p4, entities)
    BY <1>4, <1>5, <1>12, RowsMaybe
  <2> QED
    BY <1>6, <1>12, <2>1, <2>2
<1> HIDE DEF p5, c
<1>14. RowsOf(p6, entities) =
         IF L THEN Executed(LimitOf(s), RowsOf(p5, entities), entities) ELSE RowsOf(p5, entities)
  BY <1>4, <1>5, <1>13, RowsMaybe
<1>15. Executed(LimitOf(s), ItemRows(s, entities), entities) =
         Window(ItemRows(s, entities), s.limit, s.offset)
  BY <1>5 DEF Executed
<1> QED
  BY <1>1, <1>13, <1>14, <1>15 DEF L

-----------------------------------------------------------------------------
(* Comparisons as the evaluator answers them.                              *)
LEMMA BooleanFacts ==
  /\ <<Boolean(TRUE)>> # <<Boolean(FALSE)>>
  /\ \A b \in BOOLEAN : <<Boolean(b)>> # <<>>
<1>1. Boolean(TRUE).n # Boolean(FALSE).n
  BY DEF Boolean, Whole
<1> QED
  BY <1>1

(* The operators say what Equal and Compare say.                           *)
LEMMA Applied ==
  ASSUME NEW a \in Values, NEW b \in Values
  PROVE  /\ Holds("=", a, b) <=> Equal(a, b)
         /\ Holds("<>", a, b) <=> ~Equal(a, b)
         /\ Answered("=", a, b)
         /\ Comparable(a, b) => /\ Holds("<", a, b) <=> Compare(a, b) < 0
                                /\ Holds(">", a, b) <=> Compare(a, b) > 0
                                /\ Holds("<=", a, b) <=> Compare(a, b) <= 0
                                /\ Holds(">=", a, b) <=> Compare(a, b) >= 0
         /\ \A op \in {"<", ">", "<=", ">="} : Answered(op, a, b) <=> Comparable(a, b)
<1>1. Equal(a, b) \in BOOLEAN
  BY DEF Equal, BothOf
<1>2. Apply("=", a, b) = <<Boolean(Equal(a, b))>> /\ Apply("<>", a, b) = <<Boolean(~Equal(a, b))>>
  BY DEF Apply
<1>3. ASSUME Comparable(a, b)
      PROVE  /\ Apply("<", a, b) = <<Boolean(Compare(a, b) < 0)>>
             /\ Apply(">", a, b) = <<Boolean(Compare(a, b) > 0)>>
             /\ Apply("<=", a, b) = <<Boolean(Compare(a, b) <= 0)>>
             /\ Apply(">=", a, b) = <<Boolean(Compare(a, b) >= 0)>>
  BY <1>3 DEF Apply, Ordered
<1>4. ASSUME ~Comparable(a, b), NEW op \in {"<", ">", "<=", ">="}
      PROVE  Apply(op, a, b) = <<>>
  BY <1>4 DEF Apply, Ordered, Error
<1>5. \A c \in BOOLEAN : <<Boolean(c)>> = <<Boolean(TRUE)>> <=> c
  <2>1. \A c \in BOOLEAN : c = TRUE \/ c = FALSE
    OBVIOUS
  <2> QED
    BY <2>1, BooleanFacts
<1>6. Compare(a, b) \in Int
  BY DEF Compare, Sign
<1>7. /\ (Compare(a, b) < 0) \in BOOLEAN /\ (Compare(a, b) > 0) \in BOOLEAN
      /\ (Compare(a, b) <= 0) \in BOOLEAN /\ (Compare(a, b) >= 0) \in BOOLEAN
      /\ (~Equal(a, b)) \in BOOLEAN
  BY <1>1, <1>6
<1>8. (Holds("=", a, b) <=> Equal(a, b)) /\ (Holds("<>", a, b) <=> ~Equal(a, b))
  BY <1>1, <1>2, <1>5, <1>7 DEF Holds
<1>9. Answered("=", a, b)
  BY <1>1, <1>2, BooleanFacts DEF Answered, Error
<1>10. Comparable(a, b) => /\ Holds("<", a, b) <=> Compare(a, b) < 0
                           /\ Holds(">", a, b) <=> Compare(a, b) > 0
                           /\ Holds("<=", a, b) <=> Compare(a, b) <= 0
                           /\ Holds(">=", a, b) <=> Compare(a, b) >= 0
  BY <1>3, <1>5, <1>7 DEF Holds
<1>11. \A op \in {"<", ">", "<=", ">="} : Answered(op, a, b) <=> Comparable(a, b)
  <2> SUFFICES ASSUME NEW op \in {"<", ">", "<=", ">="}
               PROVE  Answered(op, a, b) <=> Comparable(a, b)
    OBVIOUS
  <2>1. Comparable(a, b) => Apply(op, a, b) # <<>>
    BY <1>3, <1>7, BooleanFacts
  <2> QED
    BY <1>4, <2>1 DEF Answered, Error
<1> QED
  BY <1>8, <1>9, <1>10, <1>11

(* So they agree with each other, with the operands in either order.       *)
LEMMA Coherent ==
  ASSUME NEW a \in Values, NEW b \in Values
  PROVE  /\ Answered("=", a, b) /\ Holds("=", a, b) = Holds("=", b, a)
         /\ Holds("<>", a, b) = ~Holds("=", a, b)
         /\ \A op \in Comparing \ {"=", "<>"} : Answered(op, a, b) = Answered("<", b, a)
         /\ Answered("<", a, b) => ThreeWays(a, b)
<1> DEFINE ops == {"<", ">", "<=", ">="}
<1>1. /\ Holds("=", a, b) <=> Equal(a, b)
      /\ Holds("<>", a, b) <=> ~Equal(a, b)
      /\ Answered("=", a, b)
      /\ Comparable(a, b) => /\ Holds("<", a, b) <=> Compare(a, b) < 0
                             /\ Holds(">", a, b) <=> Compare(a, b) > 0
                             /\ Holds("<=", a, b) <=> Compare(a, b) <= 0
                             /\ Holds(">=", a, b) <=> Compare(a, b) >= 0
      /\ \A op \in ops : Answered(op, a, b) <=> Comparable(a, b)
  BY Applied
<1>2. /\ Holds("=", b, a) <=> Equal(b, a)
      /\ Comparable(b, a) => (Holds(">", b, a) <=> Compare(b, a) > 0)
      /\ Answered("<", b, a) <=> Comparable(b, a)
  BY Applied
<1>3. /\ Equal(a, b) = Equal(b, a) /\ Comparable(a, b) = Comparable(b, a)
      /\ Comparable(a, b) => /\ Compare(b, a) = -Compare(a, b)
                             /\ Equal(a, b) <=> Compare(a, b) = 0
  BY OrderAlwaysAgrees DEF OrderAgrees
<1>4. Comparing \ {"=", "<>"} = ops
  BY DEF Comparing
<1>6. Holds("=", a, b) = Holds("=", b, a) /\ Holds("<>", a, b) = ~Holds("=", a, b)
  BY <1>1, <1>2, <1>3 DEF Holds
<1>7. \A op \in ops : Answered(op, a, b) = Answered("<", b, a)
  BY <1>1, <1>2, <1>3 DEF Answered
<1>8. Compare(a, b) \in Int
  BY DEF Compare, Sign
<1>9. ASSUME Comparable(a, b) PROVE ThreeWays(a, b)
  <2>1. /\ Holds("<", a, b) <=> Compare(a, b) < 0
        /\ Holds(">", a, b) <=> Compare(a, b) > 0
        /\ Holds("<=", a, b) <=> Compare(a, b) <= 0
        /\ Holds(">=", a, b) <=> Compare(a, b) >= 0
        /\ Holds("=", a, b) <=> Compare(a, b) = 0
        /\ Holds(">", b, a) <=> -Compare(a, b) > 0
    BY <1>1, <1>2, <1>3, <1>9
  <2> DEFINE c == Compare(a, b)
  <2>2. c < 0 \/ c = 0 \/ c > 0
    BY <1>8
  <2>3. /\ ~(c < 0 /\ c = 0) /\ ~(c > 0 /\ c = 0) /\ ~(c < 0 /\ c > 0)
        /\ c < 0 <=> -c > 0
        /\ c <= 0 <=> ~(c > 0)
        /\ c >= 0 <=> ~(c < 0)
    BY <1>8
  <2>4. /\ Holds("<", a, b) \/ Holds("=", a, b) \/ Holds(">", a, b)
        /\ ~(Holds("<", a, b) /\ Holds("=", a, b)) /\ ~(Holds(">", a, b) /\ Holds("=", a, b))
        /\ ~(Holds("<", a, b) /\ Holds(">", a, b))
    BY <2>1, <2>2, <2>3
  <2>5. /\ Holds("<", a, b) <=> Holds(">", b, a)
        /\ Holds("<=", a, b) <=> ~Holds(">", a, b)
        /\ Holds(">=", a, b) <=> ~Holds("<", a, b)
    BY <2>1, <2>3
  <2>6. /\ Holds("<", a, b) = Holds(">", b, a)
        /\ Holds("<=", a, b) = ~Holds(">", a, b)
        /\ Holds(">=", a, b) = ~Holds("<", a, b)
    BY <2>5 DEF Holds
  <2> QED
    BY <2>4, <2>6 DEF ThreeWays
<1> QED
  BY <1>1, <1>4, <1>6, <1>7, <1>9

-----------------------------------------------------------------------------
(* The rows of a SELECT over the first columns.                            *)
LEMMA FirstColumnsScanned ==
  ASSUME NEW columns \in Seq(Nat), FirstColumns(columns), NEW entity \in Seq(Values),
         NEW e \in Trees, Columns(e) \subseteq Range(columns)
  PROVE  RowValue(e, ScannedRow(columns, entity)) = ItemValue(e, entity)
<1> DEFINE m == Len(columns)
           n == Len(entity)
           row == ScannedRow(columns, entity)
           present == Cardinality({i \in DOMAIN columns : columns[i] < n})
<1>1. m \in Nat /\ n \in Nat /\ DOMAIN columns = 1..m
  OBVIOUS
<1>2. CASE e.kind # "column"
  BY <1>2 DEF RowValue, ItemValue
<1>3. CASE e.kind = "column"
  <2>1. e.column \in Nat
    BY TreeFacts
  <2>2. e.column \in Range(columns)
    BY <1>3, ColumnsAre
  <2>3. PICK k \in 1..m : columns[k] = e.column
    BY <1>1, <2>2 DEF Range
  <2>4. columns[k] = k - 1
    BY <1>1, <2>3 DEF FirstColumns
  <2>5. columns # <<>>
    BY <2>3
  <2>6. present = IF m <= n THEN m ELSE n
    <3> HIDE DEF m, n
    <3> DEFINE l == IF m <= n THEN m ELSE n
    <3>1. l \in Nat
      BY <1>1
    <3>2. \A i \in 1..m : columns[i] = i - 1
      BY <1>1 DEF FirstColumns
    <3>3. {i \in DOMAIN columns : columns[i] < n} = 1..l
      <4>1. {i \in DOMAIN columns : columns[i] < n} = {i \in 1..m : i - 1 < n}
        BY <1>1, <3>2
      <4>2. \A i \in Int : (i \in 1..m /\ i - 1 < n) <=> i \in 1..l
        BY <1>1
      <4> HIDE DEF l
      <4> QED
        BY <4>1, <4>2
    <3> HIDE DEF l
    <3>4. Cardinality(1..l) = l
      <4>1. Cardinality(1..l) = IF 1 > l THEN 0 ELSE l - 1 + 1
        BY <3>1, FS_Interval
      <4> QED
        BY <3>1, <4>1
    <3> QED
      BY <3>3, <3>4 DEF l
  <2>7. row = [i \in 1..present |-> entity[columns[i] + 1]]
    BY <2>5 DEF ScannedRow
  <2> HIDE DEF row, present, m, n
  <2>8. present \in Nat
    BY <1>1, <2>6
  <2>9. Len(row) = present
    BY <2>7, <2>8
  <2>10. e.column < present <=> e.column < n
    BY <1>1, <2>1, <2>3, <2>4, <2>6
  <2>11. e.column < present => row[e.column + 1] = entity[e.column + 1]
    <3>1. e.column < present => e.column + 1 \in 1..present
      BY <2>1, <2>8
    <3>2. e.column + 1 = k
      BY <2>1, <2>3, <2>4
    <3> QED
      BY <2>3, <2>7, <3>1, <3>2
  <2> QED
    BY <1>3, <2>9, <2>10, <2>11 DEF RowValue, ItemValue, row, n
<1> QED
  BY <1>2, <1>3

(* The values that a SELECT answers with.                                  *)
LEMMA SelectAnswers ==
  ASSUME NEW s \in Selects, NEW entities \in Seq(Seq(Values)), NEW rows,
         rows = RowsOf(LogicalPlan(s), entities), NEW count,
         count = IF Aggregates(s) THEN 0
                 ELSE Cardinality(Chosen(Len(entities), s.limit, s.offset))
  PROVE  /\ Len(rows) = count
         /\ FirstColumns(LogicalPlan(s)[1].columns) =>
              \A i \in 1..count, j \in DOMAIN s.items :
                rows[i][j] = ItemValue(s.items[j], entities[FirstAt(s.offset) + i - 1])
<1> DEFINE columns == Scan(SelectColumns(s)).columns
           base == ItemRows(s, entities)
           S == {base[i] : i \in DOMAIN base}
           w == Window(base, s.limit, s.offset)
<1>1. s.limit \in Optional(Nat) /\ s.offset \in Optional(Nat) /\ s.items \in Seq(Trees)
  BY SelectTypes
<1>2. Len(entities) \in Nat /\ DOMAIN entities = 1..Len(entities)
  OBVIOUS
<1>3. LogicalPlan(s)[1].columns = columns
  BY SelectScans
<1>4. rows = IF s.limit # <<>> \/ s.offset # <<>> THEN w ELSE base
  BY SelectRows
<1>5. /\ Aggregates(s) => base = <<>>
      /\ ~Aggregates(s) =>
           base = [i \in 1..Len(entities) |-> ItemRow(s, columns, entities[i])]
  BY <1>2 DEF ItemRows
<1> HIDE DEF base
<1>6. /\ base \in Seq(S) /\ Len(base) = IF Aggregates(s) THEN 0 ELSE Len(entities)
  <2>1. CASE Aggregates(s)
    BY <1>5, <2>1
  <2>2. CASE ~Aggregates(s)
    <3>1. base = [i \in 1..Len(entities) |-> base[i]]
      BY <1>5, <2>2
    <3>2. \A i \in 1..Len(entities) : base[i] \in S
      BY <3>1
    <3> HIDE DEF S
    <3>3. base \in [1..Len(entities) -> S]
      BY <3>1, <3>2
    <3> QED
      BY <1>2, <2>2, <3>3
  <2> QED
    BY <2>1, <2>2
<1> HIDE DEF S, w
<1>7. /\ Len(w) = Cardinality(Chosen(Len(base), s.limit, s.offset))
      /\ \A i \in 1..Len(w) : /\ FirstAt(s.offset) + i - 1 \in 1..Len(base)
                              /\ w[i] = base[FirstAt(s.offset) + i - 1]
  BY <1>1, <1>6, WindowFacts DEF w
<1>8. ASSUME s.limit = <<>>, s.offset = <<>>
      PROVE  /\ Len(base) = Cardinality(Chosen(Len(base), s.limit, s.offset))
             /\ \A i \in 1..Len(base) : /\ FirstAt(s.offset) + i - 1 \in 1..Len(base)
                                        /\ base[i] = base[FirstAt(s.offset) + i - 1]
  <2> DEFINE n == Len(base)
  <2>1. n \in Nat
    BY <1>2, <1>6
  <2>2. FirstAt(s.offset) = 1
    BY <1>8 DEF FirstAt
  <2> HIDE DEF n
  <2>3. Chosen(n, s.limit, s.offset) = 1..n
    BY <1>8, <2>2 DEF Chosen
  <2>4. Cardinality(1..n) = n
    <3>1. Cardinality(1..n) = IF 1 > n THEN 0 ELSE n - 1 + 1
      BY <2>1, FS_Interval
    <3> QED
      BY <2>1, <3>1
  <2>5. \A i \in 1..n : FirstAt(s.offset) + i - 1 = i
    BY <2>1, <2>2
  <2> QED
    BY <2>3, <2>4, <2>5 DEF n
<1>9. /\ Len(rows) = Cardinality(Chosen(Len(base), s.limit, s.offset))
      /\ \A i \in 1..Len(rows) : /\ FirstAt(s.offset) + i - 1 \in 1..Len(base)
                                 /\ rows[i] = base[FirstAt(s.offset) + i - 1]
  BY <1>4, <1>7, <1>8
<1>10. CASE Aggregates(s)
  <2>1. FirstAt(s.offset) \in Nat \ {0}
    BY <1>1, OptionalFacts DEF FirstAt
  <2>2. Chosen(0, s.limit, s.offset) = {}
    BY <2>1 DEF Chosen
  <2>3. count = 0 /\ Len(base) = 0 /\ Len(rows) = 0
    BY <1>6, <1>9, <1>10, <2>2, FS_EmptySet
  <2>4. 1..count = {}
    BY <2>3
  <2> QED
    BY <2>3, <2>4
<1>11. CASE ~Aggregates(s)
  <2>1. Len(base) = Len(entities) /\ count = Len(rows)
    BY <1>6, <1>9, <1>11
  <2>2. ASSUME FirstColumns(columns), NEW i \in 1..count, NEW j \in DOMAIN s.items
        PROVE  rows[i][j] = ItemValue(s.items[j], entities[FirstAt(s.offset) + i - 1])
    <3> DEFINE k == FirstAt(s.offset) + i - 1
    <3>1. k \in 1..Len(entities) /\ rows[i] = base[k]
      BY <1>9, <2>1
    <3> HIDE DEF k
    <3>2. base[k] = ItemRow(s, columns, entities[k])
      BY <1>5, <1>11, <3>1
    <3>3. rows[i][j] = RowValue(s.items[j], ScannedRow(columns, entities[k]))
      BY <3>1, <3>2 DEF ItemRow
    <3>4. s.items[j] \in Trees /\ entities[k] \in Seq(Values)
      BY <1>1, <3>1
    <3>5. columns \in Seq(Nat) /\ Columns(s.items[j]) \subseteq Range(columns)
      <4>1. columns \in Seq(Nat) /\ Range(columns) = SelectColumns(s)
        BY SelectColumnsFinite, ScanFacts
      <4>2. Columns(s.items[j]) \subseteq ColumnsOf(s.items)
        BY DEF ColumnsOf
      <4> QED
        BY <4>1, <4>2 DEF SelectColumns
    <3> HIDE DEF columns
    <3> QED
      BY <2>2, <3>3, <3>4, <3>5, FirstColumnsScanned DEF k
  <2> QED
    BY <1>3, <2>1, <2>2
<1> QED
  BY <1>10, <1>11

-----------------------------------------------------------------------------
(* What each step keeps: a plan is that of the request, a physical plan    *)
(* that of the plan, and the answer to a SELECT what the plan makes of the *)
(* entities.                                                               *)
Requests == Statements \cup {[kind |-> "condition", where |-> c] : c \in Conditions}

Planned == logical # <<>> => request \in Statements /\ logical = LogicalPlan(request)
PlannedPhysically == physical # <<>> => logical # <<>> /\ physical = PhysicalPlan(logical)
AnsweredRows ==
  request.kind = "select" /\ answer # <<>> =>
    /\ physical # <<>>
    /\ answer = <<[success |-> TRUE, rows |-> RowsOf(physical, Entities)]>>

IInv ==
  /\ request \in Requests /\ collection \in Collections
  /\ Planned /\ PlannedPhysically /\ AnsweredRows

(* What the kind of a request tells of it.                                 *)
LEMMA StatementKinds ==
  ASSUME NEW s \in Requests
  PROVE  /\ s.kind = "select" => s \in Statements /\ s \in Selects
         /\ s \in Statements => NeedsPlanner(s.kind)
         /\ NeedsPlanner(s.kind) => s \in Statements
         /\ s \in Statements => s \in Selects \/ s \in Deletes \/ s \in Updates
         /\ s.kind = "condition" => s.where \in Optional(Trees)
<1>1. Statements \subseteq Selects \cup Deletes \cup Updates
  BY QueriesAssumption
<1>2. /\ \A x \in Selects : x.kind = "select"
      /\ \A x \in Deletes : x.kind = "delete"
      /\ \A x \in Updates : x.kind = "update"
  BY DEF Selects, Deletes, Updates
<1>3. CASE s \in Statements
  BY <1>1, <1>2, <1>3 DEF NeedsPlanner
<1>4. CASE s \notin Statements
  <2>1. PICK c \in Conditions : s = [kind |-> "condition", where |-> c]
    BY <1>4 DEF Requests
  <2>2. s.kind = "condition" /\ s.where = c
    BY <2>1
  <2> QED
    BY <1>4, <2>2, QueriesAssumption DEF NeedsPlanner
<1> QED
  BY <1>3, <1>4

(* Nothing is planned or answered at first.                                *)
LEMMA InitHolds == Init => IInv
<1> SUFFICES ASSUME Init PROVE IInv
  OBVIOUS
<1> QED
  BY DEF Init, IInv, Requests, Planned, PlannedPhysically, AnsweredRows

(* Every step keeps the invariant.                                         *)
LEMMA NextHolds == IInv /\ [Next]_vars => IInv'
<1> SUFFICES ASSUME IInv, [Next]_vars PROVE IInv'
  OBVIOUS
<1> USE DEF IInv
<1>1. CASE Plan
  <2>1. physical = <<>>
    BY <1>1 DEF Plan, PlannedPhysically
  <2>2. request \in Statements
    BY <1>1, StatementKinds DEF Plan
  <2>3. Planned'
    BY <1>1, <2>2 DEF Plan, Planned
  <2>4. PlannedPhysically' /\ AnsweredRows'
    BY <1>1, <2>1 DEF Plan, PlannedPhysically, AnsweredRows
  <2> QED
    BY <1>1, <2>3, <2>4 DEF Plan
<1>2. CASE PlanPhysically
  <2>1. Planned' /\ PlannedPhysically'
    BY <1>2 DEF PlanPhysically, Planned, PlannedPhysically
  <2>2. AnsweredRows'
    BY <1>2 DEF PlanPhysically, AnsweredRows
  <2> QED
    BY <1>2, <2>1, <2>2 DEF PlanPhysically
<1>3. CASE ExecuteSelect
  <2>1. Planned' /\ PlannedPhysically'
    BY <1>3 DEF ExecuteSelect, Planned, PlannedPhysically
  <2>2. AnsweredRows'
    BY <1>3 DEF ExecuteSelect, AnsweredRows, Entities
  <2> QED
    BY <1>3, <2>1, <2>2 DEF ExecuteSelect
<1>4. CASE ExecuteMutation
  <2>1. Planned' /\ PlannedPhysically'
    BY <1>4 DEF ExecuteMutation, Planned, PlannedPhysically
  <2>2. request.kind # "select"
    <3> SUFFICES ASSUME request.kind = "select" PROVE FALSE
      OBVIOUS
    <3>1. request \in Selects
      BY StatementKinds
    <3>2. physical = LogicalPlan(request)
      BY <1>4, <3>1, SelectMirrors DEF ExecuteMutation, Planned, PlannedPhysically
    <3> QED
      BY <1>4, <3>1, <3>2, SelectMirrors DEF ExecuteMutation
  <2>3. AnsweredRows'
    BY <1>4, <2>2 DEF ExecuteMutation, AnsweredRows
  <2> QED
    BY <1>4, <2>1, <2>3 DEF ExecuteMutation
<1>5. CASE EvaluateCondition
  <2>1. Planned' /\ PlannedPhysically'
    BY <1>5 DEF EvaluateCondition, Planned, PlannedPhysically
  <2>2. AnsweredRows'
    BY <1>5 DEF EvaluateCondition, AnsweredRows
  <2> QED
    BY <1>5, <2>1, <2>2 DEF EvaluateCondition
<1>6. CASE UNCHANGED vars
  BY <1>6 DEF vars, Planned, PlannedPhysically, AnsweredRows, Entities
<1> QED
  BY <1>1, <1>2, <1>3, <1>4, <1>5, <1>6 DEF Next

(* Every statement is planned so, and mirrored.                            *)
LEMMA PlansScan ==
  ASSUME NEW s \in Statements
  PROVE  Scans(LogicalPlan(s)) /\ PhysicalPlan(LogicalPlan(s)) = LogicalPlan(s)
<1>1. s \in Selects \/ s \in Deletes \/ s \in Updates
  BY QueriesAssumption
<1> QED
  BY <1>1, SelectScans, SelectMirrors, DeleteMirrors, UpdateMirrors

(* Whatever the statement, the scan reads exactly the columns that the     *)
(* operators above it work with.                                           *)
THEOREM ScansAlwaysWhatItUses == Spec => []ScansWhatItUses
<1>1. IInv => ScansWhatItUses
  <2> SUFFICES ASSUME IInv, logical # <<>> PROVE ScansWhatItUses
    BY DEF ScansWhatItUses
  <2> DEFINE scan == logical[1].columns
             used == UNION {ColumnsIn(logical[i].items) \cup ColumnsIn(logical[i].groups)
                              \cup Range(logical[i].columns) : i \in 2 .. Len(logical)}
  <2>1. Scans(logical)
    BY PlansScan DEF IInv, Planned
  <2>2. Range(scan) = used
    <3>1. \A i \in 2 .. Len(logical) : logical[i] \in Operators
      <4>1. logical \in Seq(Operators)
        BY <2>1 DEF Scans
      <4> QED
        BY <4>1
    <3>2. \A i \in 2 .. Len(logical) :
            ColumnsIn(logical[i].items) \cup ColumnsIn(logical[i].groups)
              \cup Range(logical[i].columns) = Uses(logical[i])
      <4> SUFFICES ASSUME NEW i \in 2 .. Len(logical)
                   PROVE  ColumnsIn(logical[i].items) \cup ColumnsIn(logical[i].groups)
                            \cup Range(logical[i].columns) = Uses(logical[i])
        OBVIOUS
      <4>1. logical[i].items \in Seq(Trees) /\ logical[i].groups \in Seq(Trees)
        BY <3>1 DEF Operators
      <4> QED
        BY <4>1, ListFacts DEF Uses
    <3>3. used = Above(logical)
      BY <3>2 DEF Above
    <3> QED
      BY <2>1, <3>3 DEF Scans
  <2>3. \A i \in 1 .. Len(scan) - 1 : scan[i] < scan[i + 1]
    <3>1. scan \in Seq(Nat) /\ Ascends(scan)
      BY <2>1 DEF Scans
    <3> HIDE DEF scan
    <3> SUFFICES ASSUME NEW i \in 1 .. Len(scan) - 1 PROVE scan[i] < scan[i + 1]
      OBVIOUS
    <3>2. Len(scan) \in Nat /\ DOMAIN scan = 1 .. Len(scan)
      BY <3>1
    <3>3. i \in DOMAIN scan /\ i + 1 \in DOMAIN scan /\ i < i + 1
      BY <3>2
    <3> QED
      BY <3>1, <3>3 DEF Ascends
  <2> QED
    BY <2>2, <2>3 DEF ScansWhatItUses
<1> QED
  BY <1>1, InitHolds, NextHolds, PTL DEF Spec

(* The physical planner leaves the plan of every statement as it is.       *)
THEOREM AlwaysMirrored == Spec => []PhysicalMirrors
<1>1. IInv => PhysicalMirrors
  BY PlansScan DEF IInv, Planned, PlannedPhysically, PhysicalMirrors
<1> QED
  BY <1>1, InitHolds, NextHolds, PTL DEF Spec

(* The answer to every SELECT of columns alone, with no clause but LIMIT   *)
(* and OFFSET, has as many rows as these leave, and if the columns are the *)
(* first ones of the collection, the values of its items.                  *)
THEOREM RowsAlwaysTheColumns == Spec => []RowsAreTheColumns
<1>1. IInv => RowsAreTheColumns
  <2> SUFFICES ASSUME IInv, request.kind = "select", answer # <<>>, OfColumnsAlone(request)
               PROVE  RowsAreTheColumns
    BY DEF RowsAreTheColumns
  <2> DEFINE rows == RowsOf(physical, Entities)
             count == CountOf(request)
  <2>1. request \in Selects
    BY StatementKinds DEF IInv
  <2>2. physical = LogicalPlan(request) /\ logical = LogicalPlan(request)
    BY <2>1, SelectMirrors DEF IInv, Planned, PlannedPhysically, AnsweredRows
  <2>3. answer[1].success /\ answer[1].rows = rows
    BY DEF IInv, AnsweredRows
  <2>4. Entities \in Seq(Seq(Values))
    <3>1. collection \in Optional(Seq(Seq(Values)))
      BY QueriesAssumption DEF IInv
    <3>2. collection # <<>> => collection[1] \in Seq(Seq(Values))
      BY <3>1, OptionalFacts
    <3> QED
      BY <3>2 DEF Entities
  <2>5. FirstOf(request) = FirstAt(request.offset)
    BY DEF FirstOf, FirstAt
  <2>6. ~Aggregates(request)
    <3>1. \A j \in DOMAIN request.items : request.items[j].kind # "function"
      BY DEF OfColumnsAlone
    <3> QED
      BY <3>1 DEF OfColumnsAlone, Aggregates, HasAggregate
  <2>7. count = IF Aggregates(request) THEN 0
                ELSE Cardinality(Chosen(Len(Entities), request.limit, request.offset))
    BY <2>5, <2>6 DEF CountOf, Chosen
  <2> HIDE DEF count
  <2>8. /\ Len(rows) = count
        /\ FirstColumns(LogicalPlan(request)[1].columns) =>
             \A i \in 1..count, j \in DOMAIN request.items :
               rows[i][j] = ItemValue(request.items[j], Entities[FirstAt(request.offset) + i - 1])
    BY <2>1, <2>2, <2>4, <2>7, SelectAnswers
  <2> HIDE DEF rows
  <2> QED
    BY <2>2, <2>3, <2>5, <2>8 DEF RowsAreTheColumns, count
<1> QED
  BY <1>1, InitHolds, NextHolds, PTL DEF Spec

(* Whatever two constants a condition compares, the six operators agree    *)
(* about them.                                                             *)
THEOREM ComparesAlwaysCoherently == Spec => []ComparesCoherently
<1>1. IInv => ComparesCoherently
  <2> SUFFICES ASSUME IInv, IsComparison PROVE ComparesCoherently
    BY DEF ComparesCoherently
  <2> DEFINE a == Compared[1].value
             b == Compared[2].value
  <2>1. request.where[1] \in Trees /\ request.where[1].kind = "binary"
    <3>1. request.where \in Optional(Trees) /\ request.where # <<>>
      BY StatementKinds DEF IInv, IsComparison
    <3> QED
      BY <3>1, OptionalFacts DEF IsComparison
  <2>2. 1 \in DOMAIN Compared /\ 2 \in DOMAIN Compared
    <3>1. Len(Compared) = 2
      BY <2>1, ExpressionsAssumption DEF Compared
    <3>2. DOMAIN Compared = 1..Len(Compared)
      BY <2>1, TreeFacts DEF Compared
    <3> QED
      BY <3>1, <3>2
  <2>3. Compared[1] \in Trees /\ Compared[2] \in Trees
    BY <2>1, <2>2, TreeFacts DEF Compared
  <2>4. a \in Values /\ b \in Values
    BY <2>3, TreeFacts
  <2> HIDE DEF a, b
  <2>5. /\ Answered("=", a, b) /\ Holds("=", a, b) = Holds("=", b, a)
        /\ Holds("<>", a, b) = ~Holds("=", a, b)
        /\ \A op \in Comparing \ {"=", "<>"} : Answered(op, a, b) = Answered("<", b, a)
        /\ Answered("<", a, b) => ThreeWays(a, b)
    BY <2>4, Coherent
  <2>6. \A c \in Values : OrderChains(a, b, c)
    BY <2>4, OrderAlwaysChains
  <2> QED
    BY <2>5, <2>6 DEF ComparesCoherently, a, b
<1> QED
  BY <1>1, InitHolds, NextHolds, PTL DEF Spec
-----------------------------------------------------------------------------
(* The tokens of a text.                                                   *)

(* Where the cursor is says which line and column it has counted.          *)
Positions == 1 .. Len(text) + 1
PlaceAt(p) == [position |-> p, line |-> LineOf(p), column |-> ColumnOf(p)]
Places == {PlaceAt(p) : p \in Positions}

(* Where advance leads.                                                    *)
PairAt(p) == p < Len(text) /\ text[p] = "\r" /\ text[p + 1] = "\n"
After(p) == IF p > Len(text) THEN p ELSE IF PairAt(p) THEN p + 2 ELSE p + 1

(* What is at a place.                                                     *)
LEMMA CharAt ==
  ASSUME NEW p
  PROVE  /\ Char(PlaceAt(p)) = IF p > Len(text) THEN None ELSE text[p]
         /\ AtEnd(PlaceAt(p)) <=> p > Len(text)
         /\ PlaceAt(p).position = p
BY DEF Char, AtEnd, PlaceAt

(* The ends of lines before a position can be counted.                     *)
LEMMA EndsFinite ==
  ASSUME NEW p \in Nat
  PROVE  IsFiniteSet(EndsBefore(p)) /\ Cardinality(EndsBefore(p)) \in Nat
<1>1. IsFiniteSet(1 .. p - 1)
  BY FS_Interval
<1>2. EndsBefore(p) \subseteq 1 .. p - 1
  BY DEF EndsBefore
<1> QED
  BY <1>1, <1>2, FS_Subset, FS_CardinalityType

(* One of them is the last.                                                *)
LEMMA LastEnd ==
  ASSUME NEW p \in Nat, EndsBefore(p) # {}
  PROVE  \E q \in EndsBefore(p) : \A r \in EndsBefore(p) : r <= q
<1> DEFINE D == {p - q : q \in EndsBefore(p)}
<1>1. EndsBefore(p) \subseteq 1 .. p - 1
  BY DEF EndsBefore
<1>2. D \in SUBSET Nat /\ D # {}
  BY <1>1
<1>3. PICK d \in D : \A e \in D : d <= e
  <2> HIDE DEF D
  <2> QED
    BY <1>2, LeastExists
<1>4. PICK q \in EndsBefore(p) : d = p - q
  OBVIOUS
<1>5. \A r \in EndsBefore(p) : r <= q
  <2> SUFFICES ASSUME NEW r \in EndsBefore(p) PROVE r <= q
    OBVIOUS
  <2>1. p - r \in D
    OBVIOUS
  <2>2. p - q <= p - r /\ q \in Int /\ r \in Int
    BY <1>1, <1>3, <1>4, <2>1
  <2> QED
    BY <2>2
<1> QED
  BY <1>5

(* Behind a character that ends no line, the line is the same.             *)
LEMMA NoEnd ==
  ASSUME NEW p \in Nat, ~Ends(p)
  PROVE  LineOf(p + 1) = LineOf(p) /\ ColumnOf(p + 1) = ColumnOf(p) + 1
<1>1. EndsBefore(p + 1) = EndsBefore(p)
  <2>1. \A q \in 1 .. (p + 1) - 1 : q \in 1 .. p - 1 \/ q = p
    OBVIOUS
  <2>2. 1 .. p - 1 \subseteq 1 .. (p + 1) - 1
    OBVIOUS
  <2> QED
    BY <2>1, <2>2 DEF EndsBefore
<1>2. CASE EndsBefore(p) = {}
  BY <1>1, <1>2 DEF LineOf, ColumnOf
<1>3. CASE EndsBefore(p) # {}
  <2> DEFINE last == CHOOSE q \in EndsBefore(p) : \A r \in EndsBefore(p) : r <= q
  <2>1. last \in EndsBefore(p)
    BY <1>3, LastEnd
  <2>2. last \in Int
    BY <2>1 DEF EndsBefore
  <2>3. ColumnOf(p) = p - last /\ ColumnOf(p + 1) = (p + 1) - last
    BY <1>1, <1>3 DEF ColumnOf
  <2> HIDE DEF last
  <2> QED
    BY <1>1, <2>2, <2>3 DEF LineOf
<1> QED
  BY <1>2, <1>3

(* Behind one that does, the next line begins.                             *)
LEMMA AtAnEnd ==
  ASSUME NEW p \in Nat \ {0}, Ends(p)
  PROVE  LineOf(p + 1) = LineOf(p) + 1 /\ ColumnOf(p + 1) = 1
<1>1. EndsBefore(p + 1) = EndsBefore(p) \cup {p}
  <2>1. \A q \in 1 .. (p + 1) - 1 : q \in 1 .. p - 1 \/ q = p
    OBVIOUS
  <2>2. 1 .. p - 1 \subseteq 1 .. (p + 1) - 1 /\ p \in 1 .. (p + 1) - 1
    OBVIOUS
  <2> QED
    BY <2>1, <2>2 DEF EndsBefore
<1>2. \A q \in EndsBefore(p) : q \in Int /\ q < p
  BY DEF EndsBefore
<1>3. LineOf(p + 1) = LineOf(p) + 1
  <2>1. IsFiniteSet(EndsBefore(p)) /\ Cardinality(EndsBefore(p)) \in Nat
    BY EndsFinite
  <2>2. p \notin EndsBefore(p)
    BY <1>2
  <2>3. Cardinality(EndsBefore(p) \cup {p}) = Cardinality(EndsBefore(p)) + 1
    BY <2>1, <2>2, FS_AddElement
  <2> QED
    BY <1>1, <2>1, <2>3 DEF LineOf
<1>4. ColumnOf(p + 1) = 1
  <2> DEFINE last == CHOOSE q \in EndsBefore(p + 1) : \A r \in EndsBefore(p + 1) : r <= q
  <2>1. p \in EndsBefore(p + 1) /\ \A r \in EndsBefore(p + 1) : r <= p
    BY <1>1, <1>2
  <2>2. last \in EndsBefore(p + 1) /\ \A r \in EndsBefore(p + 1) : r <= last
    BY <2>1
  <2>3. ColumnOf(p + 1) = (p + 1) - last
    BY <2>1 DEF ColumnOf
  <2> HIDE DEF last
  <2>4. last = p
    <3>1. last <= p /\ p <= last /\ last \in Int
      BY <1>1, <1>2, <2>1, <2>2
    <3> QED
      BY <3>1
  <2> QED
    BY <2>3, <2>4
<1> QED
  BY <1>3, <1>4

(* advance counts lines and columns as the text has them.                  *)
LEMMA AdvanceAt ==
  ASSUME text \in Seq(STRING), NEW p \in Positions
  PROVE  /\ Advance(PlaceAt(p)) = PlaceAt(After(p))
         /\ After(p) \in Positions /\ p <= After(p) /\ (p <= Len(text) => p < After(p))
<1> DEFINE n == Len(text)
           c == PlaceAt(p)
<1>1. n \in Nat /\ p \in Nat \ {0} /\ p <= n + 1
  BY DEF Positions
<1>2. After(p) \in Positions /\ p <= After(p) /\ (p <= n => p < After(p))
  <2> HIDE DEF n
  <2> QED
    BY <1>1 DEF After, Positions, PairAt, n
<1>3. /\ Char(c) = IF p > n THEN None ELSE text[p]
      /\ AtEnd(c) <=> p > n
      /\ c.position = p /\ c.line = LineOf(p) /\ c.column = ColumnOf(p)
  BY CharAt DEF PlaceAt
<1> HIDE DEF c
<1>4. CASE p > n
  <2>1. Advance(c) = c
    BY <1>3, <1>4 DEF Advance
  <2>2. After(p) = p
    BY <1>4 DEF After
  <2> QED
    BY <1>2, <2>1, <2>2 DEF c
<1>5. CASE p <= n
  <2>1. ~AtEnd(c) /\ Char(c) = text[p]
    <3> HIDE DEF n
    <3>1. ~(p > n)
      BY <1>1, <1>5
    <3> QED
      BY <1>3, <3>1
  <2> DEFINE pair == Char(c) = "\r" /\ p + 1 <= Len(text) /\ text[p + 1] = "\n"
  <2>2. pair <=> PairAt(p)
    BY <1>1, <2>1 DEF PairAt
  <2>3. Advance(c) =
          [position |-> IF pair THEN p + 1 + 1 ELSE p + 1,
           line |-> IF Char(c) \in Breaks THEN LineOf(p) + 1 ELSE LineOf(p),
           column |-> IF Char(c) \in Breaks THEN 1 ELSE ColumnOf(p) + 1]
    BY <1>3, <2>1 DEF Advance
  <2> HIDE DEF pair
  <2>4. CASE PairAt(p)
    <3>1. ~Ends(p) /\ Ends(p + 1)
      BY <1>1, <2>4 DEF PairAt, Ends
    <3>2. LineOf(p + 1) = LineOf(p)
      BY <3>1, <1>1, NoEnd
    <3>3. LineOf(p + 1 + 1) = LineOf(p + 1) + 1 /\ ColumnOf(p + 1 + 1) = 1
      <4>1. p + 1 \in Nat \ {0}
        BY <1>1
      <4> QED
        BY <3>1, <4>1, AtAnEnd
    <3>4. Char(c) \in Breaks
      BY <2>1, <2>4 DEF PairAt, Breaks
    <3>5. After(p) = p + 1 + 1
      BY <1>1, <1>5, <2>4 DEF After
    <3> QED
      BY <1>2, <2>2, <2>3, <2>4, <3>2, <3>3, <3>4, <3>5 DEF PlaceAt, c
  <2>5. CASE ~PairAt(p)
    <3>1. Ends(p) <=> Char(c) \in Breaks
      <4>1. text[p] = "\r" => p = Len(text) \/ text[p + 1] # "\n"
        BY <1>1, <1>5, <2>5 DEF PairAt
      <4> QED
        BY <2>1, <4>1 DEF Ends, Breaks
    <3>2. LineOf(p + 1) = (IF Char(c) \in Breaks THEN LineOf(p) + 1 ELSE LineOf(p))
          /\ ColumnOf(p + 1) = IF Char(c) \in Breaks THEN 1 ELSE ColumnOf(p) + 1
      BY <1>1, <3>1, NoEnd, AtAnEnd
    <3>3. After(p) = p + 1
      BY <1>1, <1>5, <2>5 DEF After
    <3> QED
      BY <1>2, <2>2, <2>3, <2>5, <3>2, <3>3 DEF PlaceAt, c
  <2> QED
    BY <2>4, <2>5
<1> QED
  BY <1>1, <1>2, <1>4, <1>5 DEF c

(* A step can be taken any number of times.                                *)
Iterates(f, start, step, N) == f[0] = start /\ \A n \in 1..N : f[n] = step[f[n - 1]]

(* From any start there is a function that takes N steps.                  *)
LEMMA Iterated ==
  ASSUME NEW S, NEW start \in S, NEW step \in [S -> S], NEW N \in Nat
  PROVE  \E f \in [0..N -> S] : Iterates(f, start, step, N)
<1> DEFINE Right(f, k) == Iterates(f, start, step, k)
           Bad == {k \in 0..N : ~\E f \in [0..k -> S] : Right(f, k)}
<1> SUFFICES Bad = {}
  <2>1. N \in 0..N
    OBVIOUS
  <2> QED
    BY <2>1
<1> SUFFICES ASSUME Bad # {} PROVE FALSE
  OBVIOUS
<1>1. PICK k \in Bad : \A j \in Bad : k <= j
  <2>1. Bad \in SUBSET Nat
    OBVIOUS
  <2> HIDE DEF Bad
  <2> QED
    BY <2>1, LeastExists
<1>2. k \in 0..N
  OBVIOUS
<1>3. CASE k = 0
  <2> DEFINE f == [n \in 0..0 |-> start]
  <2>1. f \in [0..0 -> S] /\ Right(f, 0)
    BY DEF Iterates
  <2> QED
    BY <1>3, <2>1
<1>4. CASE k # 0
  <2>1. k - 1 \in 0..N /\ ~(k <= k - 1) /\ k \in 0..k /\ k - 1 \in 0..k - 1
    BY <1>2, <1>4
  <2>2. PICK f \in [0..k - 1 -> S] : Right(f, k - 1)
    BY <1>1, <2>1
  <2> DEFINE g == [n \in 0..k |-> IF n = k THEN step[f[k - 1]] ELSE f[n]]
  <2>3. g \in [0..k -> S]
    <3>1. step[f[k - 1]] \in S
      BY <2>1
    <3>2. \A n \in 0..k : n # k => n \in 0..k - 1
      BY <1>2
    <3> QED
      BY <3>1, <3>2
  <2>4. g[0] = start
    BY <1>2, <1>4, <2>2 DEF Iterates
  <2>5. ASSUME NEW n \in 1..k PROVE g[n] = step[g[n - 1]]
    <3>1. n \in 0..k /\ n - 1 \in 0..k /\ n - 1 # k
      BY <1>2
    <3>2. g[n - 1] = f[n - 1]
      BY <3>1
    <3>3. CASE n = k
      BY <3>1, <3>2, <3>3
    <3>4. CASE n # k
      <4>1. n \in 1..k - 1
        BY <1>2, <3>4
      <4> QED
        BY <2>2, <3>1, <3>2, <3>4, <4>1 DEF Iterates
    <3> QED
      BY <3>3, <3>4
  <2> HIDE DEF g
  <2>6. Right(g, k)
    BY <2>4, <2>5 DEF Iterates
  <2> QED
    BY <2>3, <2>6
<1> QED
  BY <1>3, <1>4

(* A loop ends before it has used up what it had: of its first rounds, one *)
(* is in E, where it ends; up to that one, all are in J.                   *)
LEMMA LoopEnds ==
  ASSUME NEW N \in Nat, NEW J, NEW E, NEW left,
         0 \in J, left[0] <= N,
         \A n \in (0..N) \cap J : left[n] \in Nat,
         \A n \in (0..N) \cap J : n \notin E => left[n] > 0,
         \A n \in (0..N - 1) \cap J : n \notin E => n + 1 \in J /\ left[n + 1] < left[n]
  PROVE  /\ \E n \in 0..N : n \in E /\ \A m \in 0..n - 1 : m \notin E
         /\ \A n \in 0..N : (\A m \in 0..n - 1 : m \notin E) => n \in J
<1> DEFINE Passes(n) == \A m \in 0..n - 1 : m \notin E
           Bad == {n \in 0..N : Passes(n) /\ ~(n \in J /\ left[n] <= N - n)}
<1>1. Bad = {}
  <2> SUFFICES ASSUME Bad # {} PROVE FALSE
    OBVIOUS
  <2>1. PICK n \in Bad : \A m \in Bad : n <= m
    <3>1. Bad \in SUBSET Nat
      OBVIOUS
    <3> HIDE DEF Bad
    <3> QED
      BY <3>1, LeastExists
  <2>2. n \in 0..N /\ Passes(n) /\ ~(n \in J /\ left[n] <= N - n)
    OBVIOUS
  <2>3. n # 0
    BY <2>2
  <2>4. n - 1 \in 0..N /\ n - 1 \in 0..N - 1 /\ n - 1 \notin E /\ ~(n <= n - 1)
        /\ (n - 1) + 1 = n
    BY <2>2, <2>3
  <2>5. Passes(n - 1)
    BY <2>2, <2>3
  <2>6. n - 1 \notin Bad
    BY <2>1, <2>4
  <2>7. n - 1 \in J /\ left[n - 1] <= N - (n - 1)
    BY <2>4, <2>5, <2>6
  <2>8. n \in J /\ left[n] < left[n - 1]
    BY <2>4, <2>7
  <2>9. left[n] \in Nat /\ left[n - 1] \in Nat
    BY <2>2, <2>4, <2>7, <2>8
  <2> QED
    BY <2>2, <2>7, <2>8, <2>9
<1>2. \A n \in 0..N : Passes(n) => n \in J /\ left[n] <= N - n
  BY <1>1
<1>3. (0..N) \cap E # {}
  <2> SUFFICES ASSUME (0..N) \cap E = {} PROVE FALSE
    OBVIOUS
  <2>1. N \in 0..N /\ Passes(N) /\ N \notin E
    OBVIOUS
  <2>2. N \in J /\ left[N] <= 0
    BY <1>2, <2>1
  <2> QED
    BY <2>1, <2>2
<1>4. PICK n \in (0..N) \cap E : \A m \in (0..N) \cap E : n <= m
  <2>1. (0..N) \cap E \in SUBSET Nat
    OBVIOUS
  <2> QED
    BY <1>3, <2>1, LeastExists
<1>5. Passes(n)
  BY <1>4
<1> QED
  BY <1>2, <1>4, <1>5

(* The loop of While: it stops, and where it does.                         *)
LEMMA WhileAt ==
  ASSUME text \in Seq(STRING), NEW p \in Positions, NEW chars, None \notin chars,
         "\r" \in chars => "\n" \in chars
  PROVE  \E q \in Positions :
           /\ While(PlaceAt(p), chars) = PlaceAt(q)
           /\ p <= q /\ \A i \in p .. q - 1 : text[i] \in chars
           /\ q <= Len(text) => text[q] \notin chars
<1>0. Len(text) \in Nat
  OBVIOUS
<1> DEFINE N == Len(text)
           c == PlaceAt(p)
           Body(h) == [n \in 0..N |-> IF n = 0 THEN c ELSE Advance(h[n - 1])]
           after == CHOOSE h : h = Body(h)
           done == CHOOSE n \in 0..N : /\ Char(after[n]) \notin chars
                                       /\ \A m \in 0 .. n - 1 : Char(after[m]) \in chars
           Passed(x) == p <= x /\ \A i \in p .. x - 1 : text[i] \in chars
           J == {n \in 0..N : \E x \in Positions : after[n] = PlaceAt(x) /\ Passed(x)}
           E == {n \in 0..N : Char(after[n]) \notin chars}
           left == [n \in 0..N |-> N + 1 - after[n].position]
<1>1. N \in Nat /\ p \in 1..N + 1 /\ Positions = 1..N + 1
  BY <1>0 DEF Positions
<1>2. While(c, chars) = after[done]
  BY DEF While
<1>3. after = Body(after)
  <2> DEFINE step == [x \in Places |-> Advance(x)]
  <2>1. c \in Places /\ step \in [Places -> Places]
    BY AdvanceAt DEF Places
  <2> HIDE DEF step
  <2>2. PICK f \in [0..N -> Places] : Iterates(f, c, step, N)
    <3>1. N \in Nat
      BY <1>1
    <3> QED
      BY <2>1, <3>1, Iterated
  <2>3. \A n \in 0..N : n # 0 => n \in 1..N /\ n - 1 \in 0..N
    BY <1>1
  <2> HIDE DEF N, c
  <2>4. \A n \in 0..N : f[n] = IF n = 0 THEN c ELSE Advance(f[n - 1])
    BY <2>2, <2>3 DEF step, Iterates
  <2>5. f = Body(f)
    BY <2>4
  <2> HIDE DEF Body
  <2> QED
    BY <2>5
<1> HIDE DEF after
<1>4. after[0] = c /\ \A n \in 1..N : after[n] = Advance(after[n - 1])
  <2> HIDE DEF c, N
  <2>1. \A n \in 0..N : after[n] = IF n = 0 THEN c ELSE Advance(after[n - 1])
    BY <1>3
  <2>2. 0 \in 0..N /\ \A n \in 1..N : n \in 0..N /\ n # 0
    BY <1>1
  <2> QED
    BY <2>1, <2>2
<1>5. 0 \in J
  <2>1. Passed(p)
    <3> HIDE DEF N
    <3> QED
      BY <1>1
  <2>2. 0 \in 0..N
    BY <1>1
  <2> HIDE DEF Passed
  <2> QED
    BY <1>4, <2>1, <2>2
<1>6. ASSUME NEW x \in Positions, Passed(x), Char(PlaceAt(x)) \in chars
      PROVE  x <= N /\ After(x) \in Positions /\ x < After(x) /\ Passed(After(x))
  <2>1. ~(x > Len(text)) /\ text[x] \in chars
    BY <1>6, CharAt
  <2>2. x <= N /\ x \in 1..N /\ x \in Nat
    <3> HIDE DEF N
    <3> QED
      BY <1>1, <2>1 DEF N
  <2>3. After(x) \in Positions /\ x < After(x)
    BY <2>2, AdvanceAt
  <2>4. ASSUME NEW i \in p .. After(x) - 1 PROVE text[i] \in chars
    <3> HIDE DEF N
    <3>1. i \in Int /\ p <= i /\ i < After(x) /\ After(x) \in Int
      BY <1>1, <2>3
    <3>2. CASE i < x
      <4>1. i \in p .. x - 1
        BY <1>1, <2>2, <3>1, <3>2
      <4> QED
        BY <1>6, <4>1
    <3>3. CASE i = x
      BY <2>1, <3>3
    <3>4. CASE i > x
      <4>1. PairAt(x) /\ i = x + 1
        BY <2>1, <2>2, <3>1, <3>4 DEF After
      <4> QED
        BY <2>1, <4>1 DEF PairAt
    <3> QED
      BY <2>2, <3>1, <3>2, <3>3, <3>4
  <2>5. p <= After(x)
    BY <1>1, <1>6, <2>2, <2>3
  <2> QED
    BY <2>2, <2>3, <2>4, <2>5
<1> HIDE DEF Passed, N, c
<1>7. ASSUME NEW n \in (0..N) \cap J
      PROVE  /\ left[n] \in Nat
             /\ n \notin E => left[n] > 0
             /\ n \in 0..N - 1 /\ n \notin E => n + 1 \in J /\ left[n + 1] < left[n]
  <2>1. PICK x \in Positions : after[n] = PlaceAt(x) /\ Passed(x)
    OBVIOUS
  <2>2. left[n] = N + 1 - x /\ x \in 1..N + 1
    BY <1>1, <2>1, CharAt
  <2>3. left[n] \in Nat
    BY <1>1, <2>2
  <2>4. CASE n \in E
    BY <2>3, <2>4
  <2>5. CASE n \notin E
    <3>1. Char(PlaceAt(x)) \in chars
      BY <2>1, <2>5
    <3>2. x <= N /\ After(x) \in Positions /\ x < After(x) /\ Passed(After(x))
      BY <1>6, <2>1, <3>1
    <3>3. left[n] > 0
      BY <1>1, <2>2, <3>2
    <3>4. ASSUME n \in 0..N - 1 PROVE n + 1 \in J /\ left[n + 1] < left[n]
      <4>1. n + 1 \in 1..N /\ n + 1 \in 0..N /\ (n + 1) - 1 = n
        BY <1>1, <3>4
      <4>2. after[n + 1] = PlaceAt(After(x))
        BY <1>4, <2>1, <4>1, AdvanceAt
      <4>3. left[n + 1] = N + 1 - After(x)
        BY <4>1, <4>2, CharAt
      <4>4. left[n + 1] < left[n]
        BY <1>1, <2>2, <3>2, <4>3
      <4> QED
        BY <3>2, <4>1, <4>2, <4>4
    <3> QED
      BY <2>3, <3>3, <3>4
  <2> QED
    BY <2>4, <2>5
<1>8. left[0] <= N
  <2>1. left[0] = N + 1 - p
    BY <1>1, <1>4, CharAt DEF c
  <2> QED
    BY <1>1, <2>1
<1>9. /\ \E n \in 0..N : n \in E /\ \A m \in 0..n - 1 : m \notin E
      /\ \A n \in 0..N : (\A m \in 0..n - 1 : m \notin E) => n \in J
  <2>1. \A n \in (0..N - 1) \cap J : n \in (0..N) \cap J
    BY <1>1
  <2> HIDE DEF J, E, left
  <2> QED
    BY <1>1, <1>5, <1>7, <1>8, <2>1, LoopEnds
<1>10. \A n \in 0..N : (\A m \in 0..n - 1 : m \notin E)
                         <=> \A m \in 0 .. n - 1 : Char(after[m]) \in chars
  BY <1>1
<1>11. done \in 0..N /\ Char(after[done]) \notin chars
       /\ \A m \in 0 .. done - 1 : Char(after[m]) \in chars
  <2>1. \E n \in 0..N : Char(after[n]) \notin chars
          /\ \A m \in 0 .. n - 1 : Char(after[m]) \in chars
    BY <1>9, <1>10
  <2> QED
    BY <2>1
<1> HIDE DEF done
<1>12. done \in J
  BY <1>9, <1>10, <1>11
<1>13. PICK q \in Positions : after[done] = PlaceAt(q) /\ Passed(q)
  BY <1>12
<1>14. q <= Len(text) => text[q] \notin chars
  <2> SUFFICES ASSUME q <= Len(text) PROVE text[q] \notin chars
    OBVIOUS
  <2>1. ~(q > Len(text))
    BY <1>1 DEF N
  <2> QED
    BY <1>11, <1>13, <2>1, CharAt
<1> QED
  BY <1>2, <1>13, <1>14 DEF c, Passed

(* The classes of characters that the lexer tells apart.                   *)
LEMMA LettersAre == Letters = {"e", "n", "o", "r", "E", "N", "O", "R"}
BY DEF Letters, Capital

(* No class that is read in a loop has the end of the text in it.          *)
LEMMA NoneIsNoClass ==
  None \notin Letters /\ None \notin Digits /\ None \notin Alnum /\ None \notin Spaces
  /\ None \notin Quotes /\ None \notin Breaks
<1>1. None \notin Letters
  BY LettersAre DEF None
<1>2. None \notin Digits
  BY DEF None, Digits
<1>3. None \notin Alnum
  <2>1. None # "_"
    BY DEF None
  <2> QED
    BY <1>1, <1>2, <2>1 DEF Alnum
<1>4. None \notin Spaces
  BY DEF None, Spaces
<1>5. None \notin Quotes /\ None \notin Breaks
  BY DEF None, Quotes, Breaks
<1> QED
  BY <1>1, <1>2, <1>3, <1>4, <1>5

(* A carriage return is in a class together with the line feed.            *)
LEMMA BreaksTogether ==
  "\r" \notin Digits /\ "\r" \notin Alnum /\ "\n" \in Spaces
<1>1. "\r" \notin Digits
  BY DEF Digits
<1>2. "\r" \notin Letters
  BY LettersAre
<1> QED
  BY <1>1, <1>2 DEF Alnum, Spaces

(* What a character can begin.                                             *)
Opens == Letters \cup {"_"}

(* No character begins tokens of two kinds.                                *)
LEMMA FirstsApart ==
  ASSUME NEW x
  PROVE  /\ x \in Digits => /\ x \notin Opens /\ x \notin Quotes /\ x \notin Single
                            /\ Seconds(x) = {} /\ x # "\r" /\ x # "." /\ x \notin {"e", "E"}
         /\ x \in Opens => /\ x \in Alnum /\ x \notin Digits /\ x \notin Quotes
                           /\ x \notin Single /\ Seconds(x) = {} /\ x # "\r"
         /\ x \in Quotes => /\ x \notin Alnum /\ x \notin Digits /\ x \notin Single
                            /\ Seconds(x) = {} /\ x \notin Breaks /\ x # "\r" /\ x # "\n"
                            /\ x # "\\"
         /\ x \in Alnum => x \in Opens \/ x \in Digits
         /\ \A y \in Seconds(x) : y # "\r" /\ y # None
<1>1. ASSUME x \in Digits
      PROVE  /\ x \notin Opens /\ x \notin Quotes /\ x \notin Single
             /\ Seconds(x) = {} /\ x # "\r" /\ x # "." /\ x \notin {"e", "E"}
  <2>1. x = "0" \/ x = "1"
    BY <1>1 DEF Digits
  <2>2. x \notin Opens
    BY <2>1, LettersAre DEF Opens
  <2>3. x \notin Quotes
    BY <2>1 DEF Quotes
  <2>4. x \notin Single
    BY <2>1 DEF Single
  <2>5. Seconds(x) = {}
    BY <2>1 DEF Seconds
  <2>6. x # "\r" /\ x # "." /\ x \notin {"e", "E"}
    BY <2>1
  <2> QED
    BY <2>2, <2>3, <2>4, <2>5, <2>6
<1>2. ASSUME x \in Opens
      PROVE  /\ x \in Alnum /\ x \notin Digits /\ x \notin Quotes
             /\ x \notin Single /\ Seconds(x) = {} /\ x # "\r"
  <2>1. x \in {"e", "n", "o", "r", "E", "N", "O", "R", "_"}
    BY <1>2, LettersAre DEF Opens
  <2>2. x \in Alnum
    BY <1>2 DEF Alnum, Opens
  <2>3. x \notin Digits /\ x \notin Quotes
    BY <2>1 DEF Digits, Quotes
  <2>4. x \notin Single
    BY <2>1 DEF Single
  <2>5. Seconds(x) = {}
    <3>1. x # "!" /\ x # "<" /\ x # ">"
      BY <2>1
    <3> QED
      BY <3>1 DEF Seconds
  <2>6. x # "\r"
    BY <2>1
  <2> QED
    BY <2>2, <2>3, <2>4, <2>5, <2>6
<1>3. ASSUME x \in Quotes
      PROVE  /\ x \notin Alnum /\ x \notin Digits /\ x \notin Single
             /\ Seconds(x) = {} /\ x \notin Breaks /\ x # "\r" /\ x # "\n" /\ x # "\\"
  <2>1. x = "'" \/ x = "\""
    BY <1>3 DEF Quotes
  <2>2. x \notin Digits
    BY <2>1 DEF Digits
  <2>3. x \notin Letters
    BY <2>1, LettersAre
  <2>4. x \notin Alnum
    BY <2>1, <2>2, <2>3 DEF Alnum
  <2>5. x \notin Single
    BY <2>1 DEF Single
  <2>6. Seconds(x) = {}
    BY <2>1 DEF Seconds
  <2>7. x # "\r" /\ x # "\n" /\ x # "\\"
    BY <2>1
  <2> QED
    BY <2>2, <2>4, <2>5, <2>6, <2>7 DEF Breaks
<1>4. x \in Alnum => x \in Opens \/ x \in Digits
  BY DEF Alnum, Opens
<1>5. \A y \in Seconds(x) : y # "\r" /\ y # None
  <2>1. \A y \in Seconds(x) : y = "=" \/ y = ">"
    BY DEF Seconds
  <2> QED
    BY <2>1 DEF None
<1> QED
  BY <1>1, <1>2, <1>3, <1>4, <1>5

(* A part of the text.                                                     *)
LEMMA RestFacts ==
  ASSUME text \in Seq(STRING), NEW p \in Positions, NEW q \in p - 1 .. Len(text)
  PROVE  /\ Rest(p, q) \in Seq(STRING) /\ Len(Rest(p, q)) = q - p + 1
         /\ \A i \in 1 .. q - p + 1 : Rest(p, q)[i] = text[p + i - 1]
         /\ Rest(p, q) = <<>> <=> q = p - 1
<1>1. Len(text) \in Nat /\ p \in Nat \ {0} /\ q \in Nat
  BY DEF Positions
<1>2. Rest(p, q) = [i \in 1 .. q - p + 1 |-> text[i + p - 1]]
  BY <1>1 DEF Rest
<1>3. \A i \in 1 .. q - p + 1 : text[i + p - 1] \in STRING
  BY <1>1
<1>4. q - p + 1 \in Nat
  BY <1>1
<1>5. Rest(p, q) \in [1 .. q - p + 1 -> STRING]
  BY <1>2, <1>3
<1>6. Rest(p, q) \in Seq(STRING) /\ Len(Rest(p, q)) = q - p + 1
  BY <1>4, <1>5
<1>7. Rest(p, q) = <<>> <=> q = p - 1
  BY <1>1, <1>6
<1> QED
  BY <1>1, <1>2, <1>6, <1>7

(* A part of a part.                                                       *)
LEMMA PartOfRest ==
  ASSUME text \in Seq(STRING), NEW p \in Positions, NEW q \in p - 1 .. Len(text),
         NEW i \in 1 .. q - p + 2, NEW j \in i - 1 .. q - p + 1
  PROVE  SubSeq(Rest(p, q), i, j) = Rest(p + i - 1, p + j - 1)
<1>1. Len(text) \in Nat /\ p \in Nat \ {0} /\ q \in Nat /\ p <= Len(text) + 1
  BY DEF Positions
<1>2. i \in Nat /\ j \in Int
  BY <1>1
<1>3. SubSeq(Rest(p, q), i, j) = [k \in 1 .. j - i + 1 |-> Rest(p, q)[k + i - 1]]
  BY <1>2, RestFacts
<1>4. Rest(p + i - 1, p + j - 1)
        = [k \in 1 .. (p + j - 1) - (p + i - 1) + 1 |-> text[k + (p + i - 1) - 1]]
  BY <1>1, <1>2 DEF Rest
<1>5. (p + j - 1) - (p + i - 1) + 1 = j - i + 1
  BY <1>1, <1>2
<1>6. \A k \in 1 .. j - i + 1 : Rest(p, q)[k + i - 1] = text[k + (p + i - 1) - 1]
  <2> SUFFICES ASSUME NEW k \in 1 .. j - i + 1
               PROVE  Rest(p, q)[k + i - 1] = text[k + (p + i - 1) - 1]
    OBVIOUS
  <2>1. k + i - 1 \in 1 .. q - p + 1 /\ p + (k + i - 1) - 1 = k + (p + i - 1) - 1
    BY <1>1, <1>2
  <2> QED
    BY <2>1, RestFacts
<1> QED
  BY <1>3, <1>4, <1>5, <1>6

(* Numbers, by the places of their characters in the text.                 *)
DigitsIn(p, q) == p <= q /\ \A i \in p..q : text[i] \in Digits
SignedIn(p, q) == DigitsIn(p, q) \/ (p <= q /\ text[p] \in Signs /\ DigitsIn(p + 1, q))
DecimalIn(p, q) ==
  DigitsIn(p, q)
    \/ \E j \in p..q : text[j] = "." /\ DigitsIn(p, j - 1) /\ DigitsIn(j + 1, q)
NumberIn(p, q) ==
  DecimalIn(p, q)
    \/ \E j \in p..q : text[j] \in {"e", "E"} /\ DecimalIn(p, j - 1) /\ SignedIn(j + 1, q)

(* A text is digits when every place of it holds one.                      *)
LEMMA DigitsPlaces ==
  ASSUME text \in Seq(STRING), NEW p \in Positions, NEW q \in p - 1 .. Len(text)
  PROVE  IsDigits(Rest(p, q)) <=> DigitsIn(p, q)
<1>1. Len(text) \in Nat /\ p \in Nat \ {0} /\ q \in Nat /\ p <= Len(text) + 1
  BY DEF Positions
<1> DEFINE w == Rest(p, q)
<1>2. /\ DOMAIN w = 1 .. q - p + 1
      /\ \A i \in 1 .. q - p + 1 : w[i] = text[p + i - 1]
      /\ w = <<>> <=> q = p - 1
  BY <1>1, RestFacts
<1> HIDE DEF w
<1>3. ASSUME IsDigits(w) PROVE DigitsIn(p, q)
  <2>1. p <= q
    BY <1>1, <1>2, <1>3 DEF IsDigits
  <2>2. ASSUME NEW i \in p..q PROVE text[i] \in Digits
    <3>1. i - p + 1 \in 1 .. q - p + 1 /\ p + (i - p + 1) - 1 = i
      BY <1>1
    <3> QED
      BY <1>2, <1>3, <3>1 DEF IsDigits
  <2> QED
    BY <2>1, <2>2 DEF DigitsIn
<1>4. ASSUME DigitsIn(p, q) PROVE IsDigits(w)
  <2>1. w # <<>>
    BY <1>1, <1>2, <1>4 DEF DigitsIn
  <2>2. ASSUME NEW i \in DOMAIN w PROVE w[i] \in Digits
    <3>1. p + i - 1 \in p..q /\ i \in 1 .. q - p + 1
      BY <1>1, <1>2
    <3> QED
      BY <1>2, <1>4, <3>1 DEF DigitsIn
  <2> QED
    BY <2>1, <2>2 DEF IsDigits
<1> QED
  BY <1>3, <1>4 DEF w

(* The same of digits with a sign before them.                             *)
LEMMA SignedPlaces ==
  ASSUME text \in Seq(STRING), NEW p \in Positions, NEW q \in p - 1 .. Len(text)
  PROVE  IsSignedDigits(Rest(p, q)) <=> SignedIn(p, q)
<1>1. Len(text) \in Nat /\ p \in Nat \ {0} /\ q \in Nat /\ p <= Len(text) + 1
  BY DEF Positions
<1>2. Rest(p, q) = <<>> <=> q = p - 1
  BY RestFacts
<1>3. CASE q = p - 1
  BY <1>1, <1>2, <1>3, DigitsPlaces DEF IsSignedDigits, SignedIn
<1>4. CASE p <= q
  <2>1. Rest(p, q) # <<>>
    BY <1>1, <1>2, <1>4
  <2>2. Head(Rest(p, q)) = text[p]
    <3>1. Rest(p, q)[1] = text[p + 1 - 1] /\ Rest(p, q) \in Seq(STRING)
      BY <1>1, <1>4, RestFacts
    <3> QED
      BY <1>1, <2>1, <3>1
  <2>3. Tail(Rest(p, q)) = Rest(p + 1, q)
    <3>1. Rest(p, q) \in Seq(STRING) /\ Len(Rest(p, q)) = q - p + 1
      BY RestFacts
    <3>2. SubSeq(Rest(p, q), 2, q - p + 1) = Rest(p + 2 - 1, p + (q - p + 1) - 1)
      <4>1. 2 \in 1 .. q - p + 2 /\ q - p + 1 \in 2 - 1 .. q - p + 1
        BY <1>1, <1>4
      <4> QED
        BY <4>1, PartOfRest
    <3>3. p + 2 - 1 = p + 1 /\ p + (q - p + 1) - 1 = q
      BY <1>1
    <3>4. Tail(Rest(p, q)) = SubSeq(Rest(p, q), 2, Len(Rest(p, q)))
      BY <2>1, <3>1
    <3> QED
      BY <3>1, <3>2, <3>3, <3>4
  <2>4. IsDigits(Rest(p + 1, q)) <=> DigitsIn(p + 1, q)
    <3>1. p + 1 \in Positions /\ q \in (p + 1) - 1 .. Len(text)
      BY <1>1, <1>4 DEF Positions
    <3> QED
      BY <3>1, DigitsPlaces
  <2> QED
    BY <1>4, <2>1, <2>2, <2>3, <2>4, DigitsPlaces DEF IsSignedDigits, SignedIn
<1> QED
  BY <1>1, <1>3, <1>4

(* A text before and a text behind one of its characters.                  *)
LEMMA Around ==
  ASSUME text \in Seq(STRING), NEW p \in Positions, NEW q \in p - 1 .. Len(text),
         NEW i \in 1 .. q - p + 1
  PROVE  /\ p + i - 1 \in p..q /\ Rest(p, q)[i] = text[p + i - 1]
         /\ SubSeq(Rest(p, q), 1, i - 1) = Rest(p, (p + i - 1) - 1)
         /\ SubSeq(Rest(p, q), i + 1, Len(Rest(p, q))) = Rest((p + i - 1) + 1, q)
         /\ p \in Positions /\ (p + i - 1) - 1 \in p - 1 .. Len(text)
         /\ (p + i - 1) + 1 \in Positions /\ q \in ((p + i - 1) + 1) - 1 .. Len(text)
<1>1. Len(text) \in Nat /\ p \in Nat \ {0} /\ q \in Nat /\ p <= Len(text) + 1 /\ i \in Nat
  BY DEF Positions
<1>2. Rest(p, q)[i] = text[p + i - 1] /\ Len(Rest(p, q)) = q - p + 1
  BY RestFacts
<1>3. SubSeq(Rest(p, q), 1, i - 1) = Rest(p + 1 - 1, p + (i - 1) - 1)
  <2>1. 1 \in 1 .. q - p + 2 /\ i - 1 \in 1 - 1 .. q - p + 1
    BY <1>1
  <2> QED
    BY <2>1, PartOfRest
<1>4. SubSeq(Rest(p, q), i + 1, q - p + 1) = Rest(p + (i + 1) - 1, p + (q - p + 1) - 1)
  <2>1. i + 1 \in 1 .. q - p + 2 /\ q - p + 1 \in (i + 1) - 1 .. q - p + 1
    BY <1>1
  <2> QED
    BY <2>1, PartOfRest
<1>5. p + 1 - 1 = p /\ p + (i - 1) - 1 = (p + i - 1) - 1
      /\ p + (i + 1) - 1 = (p + i - 1) + 1 /\ p + (q - p + 1) - 1 = q
  BY <1>1
<1>6. p + i - 1 \in p..q
  BY <1>1
<1>7. (p + i - 1) - 1 \in p - 1 .. Len(text) /\ q \in ((p + i - 1) + 1) - 1 .. Len(text)
  BY <1>1
<1>8. (p + i - 1) + 1 \in Positions
  BY <1>1 DEF Positions
<1> QED
  BY <1>2, <1>3, <1>4, <1>5, <1>6, <1>7, <1>8

(* What is at a place is at an index.                                      *)
LEMMA IndexOf ==
  ASSUME text \in Seq(STRING), NEW p \in Positions, NEW q \in p - 1 .. Len(text),
         NEW j \in p..q
  PROVE  j - p + 1 \in 1 .. q - p + 1 /\ p + (j - p + 1) - 1 = j
BY DEF Positions

(* The same of digits with a point among them.                             *)
LEMMA DecimalPlaces ==
  ASSUME text \in Seq(STRING), NEW p \in Positions, NEW q \in p - 1 .. Len(text)
  PROVE  IsDecimal(Rest(p, q)) <=> DecimalIn(p, q)
<1> DEFINE w == Rest(p, q)
           Point(i) == w[i] = "." /\ IsDigits(SubSeq(w, 1, i - 1))
                       /\ IsDigits(SubSeq(w, i + 1, Len(w)))
           PointAt(j) == text[j] = "." /\ DigitsIn(p, j - 1) /\ DigitsIn(j + 1, q)
<1>1. DOMAIN w = 1 .. q - p + 1
  BY RestFacts DEF Positions
<1>2. ASSUME NEW i \in 1 .. q - p + 1 PROVE Point(i) <=> PointAt(p + i - 1)
  <2> DEFINE j == p + i - 1
  <2>1. /\ w[i] = text[j]
        /\ SubSeq(w, 1, i - 1) = Rest(p, j - 1)
        /\ SubSeq(w, i + 1, Len(w)) = Rest(j + 1, q)
        /\ j - 1 \in p - 1 .. Len(text)
        /\ j + 1 \in Positions /\ q \in (j + 1) - 1 .. Len(text)
    BY Around
  <2> HIDE DEF w, j
  <2> QED
    BY <2>1, DigitsPlaces DEF j
<1>3. (\E i \in 1 .. q - p + 1 : Point(i)) <=> \E j \in p..q : PointAt(j)
  <2>1. \A i \in 1 .. q - p + 1 : p + i - 1 \in p..q
    BY Around
  <2>2. \A j \in p..q : j - p + 1 \in 1 .. q - p + 1 /\ p + (j - p + 1) - 1 = j
    BY IndexOf
  <2> HIDE DEF Point, PointAt
  <2> QED
    BY <1>2, <2>1, <2>2
<1>4. IsDecimal(w) <=> IsDigits(w) \/ \E i \in 1 .. q - p + 1 : Point(i)
  BY <1>1 DEF IsDecimal
<1>5. DecimalIn(p, q) <=> DigitsIn(p, q) \/ \E j \in p..q : PointAt(j)
  BY DEF DecimalIn
<1> HIDE DEF Point, PointAt
<1> QED
  BY <1>3, <1>4, <1>5, DigitsPlaces

(* What numbers look like.                                                 *)
LEMMA NumberPlaces ==
  ASSUME text \in Seq(STRING), NEW p \in Positions, NEW q \in p - 1 .. Len(text)
  PROVE  IsNumber(Rest(p, q)) <=> NumberIn(p, q)
<1> DEFINE w == Rest(p, q)
           Mark(i) == w[i] \in {"e", "E"} /\ IsDecimal(SubSeq(w, 1, i - 1))
                      /\ IsSignedDigits(SubSeq(w, i + 1, Len(w)))
           MarkAt(j) == text[j] \in {"e", "E"} /\ DecimalIn(p, j - 1) /\ SignedIn(j + 1, q)
<1>1. DOMAIN w = 1 .. q - p + 1
  BY RestFacts DEF Positions
<1>2. ASSUME NEW i \in 1 .. q - p + 1 PROVE Mark(i) <=> MarkAt(p + i - 1)
  <2> DEFINE j == p + i - 1
  <2>1. /\ w[i] = text[j]
        /\ SubSeq(w, 1, i - 1) = Rest(p, j - 1)
        /\ SubSeq(w, i + 1, Len(w)) = Rest(j + 1, q)
        /\ j - 1 \in p - 1 .. Len(text)
        /\ j + 1 \in Positions /\ q \in (j + 1) - 1 .. Len(text)
    BY Around
  <2> HIDE DEF w, j
  <2> QED
    BY <2>1, DecimalPlaces, SignedPlaces DEF j
<1>3. (\E i \in 1 .. q - p + 1 : Mark(i)) <=> \E j \in p..q : MarkAt(j)
  <2>1. \A i \in 1 .. q - p + 1 : p + i - 1 \in p..q
    BY Around
  <2>2. \A j \in p..q : j - p + 1 \in 1 .. q - p + 1 /\ p + (j - p + 1) - 1 = j
    BY IndexOf
  <2> HIDE DEF Mark, MarkAt
  <2> QED
    BY <1>2, <2>1, <2>2
<1>4. IsNumber(w) <=> IsDecimal(w) \/ \E i \in 1 .. q - p + 1 : Mark(i)
  BY <1>1 DEF IsNumber
<1>5. NumberIn(p, q) <=> DecimalIn(p, q) \/ \E j \in p..q : MarkAt(j)
  BY DEF NumberIn
<1> HIDE DEF Mark, MarkAt
<1> QED
  BY <1>3, <1>4, <1>5, DecimalPlaces

(* What a word looks like.                                                 *)
LEMMA WordPlaces ==
  ASSUME text \in Seq(STRING), NEW p \in Positions, NEW q \in p - 1 .. Len(text)
  PROVE  IsWord(Rest(p, q)) <=>
           p <= q /\ text[p] \notin Digits /\ \A i \in p..q : text[i] \in Alnum
<1>1. Len(text) \in Nat /\ p \in Nat \ {0} /\ q \in Nat /\ p <= Len(text) + 1
  BY DEF Positions
<1> DEFINE w == Rest(p, q)
<1>2. /\ DOMAIN w = 1 .. q - p + 1 /\ w \in Seq(STRING)
      /\ \A i \in 1 .. q - p + 1 : w[i] = text[p + i - 1]
      /\ w = <<>> <=> q = p - 1
  BY <1>1, RestFacts
<1> HIDE DEF w
<1>3. CASE q = p - 1
  BY <1>1, <1>2, <1>3 DEF IsWord, w
<1>4. CASE p <= q
  <2>1. w # <<>> /\ Head(w) = text[p]
    <3>1. w # <<>> /\ w[1] = text[p + 1 - 1]
      BY <1>1, <1>2, <1>4
    <3> QED
      BY <1>1, <1>2, <3>1
  <2>2. ASSUME \A i \in DOMAIN w : w[i] \in Alnum, NEW i \in p..q PROVE text[i] \in Alnum
    <3>1. i - p + 1 \in 1 .. q - p + 1 /\ p + (i - p + 1) - 1 = i
      BY <1>1
    <3> QED
      BY <1>2, <2>2, <3>1
  <2>3. ASSUME \A i \in p..q : text[i] \in Alnum, NEW i \in DOMAIN w PROVE w[i] \in Alnum
    <3>1. p + i - 1 \in p..q /\ i \in 1 .. q - p + 1
      BY <1>1, <1>2
    <3> QED
      BY <1>2, <2>3, <3>1
  <2> QED
    BY <1>4, <2>1, <2>2, <2>3 DEF IsWord, w
<1> QED
  BY <1>1, <1>3, <1>4

(* What an operator looks like.                                            *)
LEMMA OperatorPlaces ==
  ASSUME text \in Seq(STRING), NEW p \in Positions, NEW q \in p - 1 .. Len(text)
  PROVE  IsOperator(Rest(p, q)) <=>
           \/ q = p /\ text[p] \in Single
           \/ q = p + 1 /\ text[p + 1] \in Seconds(text[p])
<1>1. Len(text) \in Nat /\ p \in Nat \ {0} /\ q \in Nat /\ p <= Len(text) + 1
  BY DEF Positions
<1> DEFINE w == Rest(p, q)
<1>2. Len(w) = q - p + 1 /\ \A i \in 1 .. q - p + 1 : w[i] = text[p + i - 1]
  BY RestFacts
<1> HIDE DEF w
<1>3. CASE q = p
  <2>1. Len(w) = 1 /\ w[1] = text[p]
    <3>1. Len(w) = 1 /\ w[1] = text[p + 1 - 1] /\ p + 1 - 1 = p
      BY <1>1, <1>2, <1>3
    <3> QED
      BY <3>1
  <2> QED
    BY <1>1, <1>3, <2>1 DEF IsOperator, w
<1>4. CASE q = p + 1
  <2>1. Len(w) = 2 /\ w[1] = text[p] /\ w[2] = text[p + 1]
    <3>1. Len(w) = 2 /\ w[1] = text[p + 1 - 1] /\ w[2] = text[p + 2 - 1]
      BY <1>1, <1>2, <1>4
    <3>2. p + 1 - 1 = p /\ p + 2 - 1 = p + 1
      BY <1>1
    <3> QED
      BY <3>1, <3>2
  <2> QED
    BY <1>1, <1>4, <2>1 DEF IsOperator, w
<1>5. CASE q # p /\ q # p + 1
  <2>1. Len(w) # 1 /\ Len(w) # 2
    BY <1>1, <1>2, <1>5
  <2> QED
    BY <1>5, <2>1 DEF IsOperator, w
<1> QED
  BY <1>3, <1>4, <1>5

(* A lexeme begins with a character of its kind.                           *)
LEMMA Beginnings ==
  ASSUME text \in Seq(STRING), NEW p \in Positions, NEW q \in p - 1 .. Len(text)
  PROVE  /\ IsNumber(Rest(p, q)) => p <= q /\ text[p] \in Digits
         /\ IsWord(Rest(p, q)) => p <= q /\ text[p] \in Opens
         /\ IsOperator(Rest(p, q)) =>
              p <= q /\ (text[p] \in Single \/ Seconds(text[p]) # {})
         /\ IsString(Rest(p, q)) => p <= q /\ text[p] \in Quotes
<1>1. Len(text) \in Nat /\ p \in Nat \ {0} /\ q \in Nat /\ p <= Len(text) + 1
  BY DEF Positions
<1>2. ASSUME IsNumber(Rest(p, q)) PROVE p <= q /\ text[p] \in Digits
  <2>1. NumberIn(p, q)
    BY <1>2, NumberPlaces
  <2>2. ASSUME NEW r \in Int, DigitsIn(p, r) PROVE p <= r /\ text[p] \in Digits
    BY <1>1, <2>2 DEF DigitsIn
  <2>3. ASSUME NEW r \in Int, DecimalIn(p, r) PROVE p <= r /\ text[p] \in Digits
    <3>1. CASE DigitsIn(p, r)
      BY <2>2, <3>1
    <3>2. CASE \E j \in p..r : DigitsIn(p, j - 1)
      <4>1. PICK j \in p..r : DigitsIn(p, j - 1)
        BY <3>2
      <4>2. j \in Int /\ j - 1 \in Int /\ p <= j /\ j <= r
        BY <1>1
      <4>3. text[p] \in Digits
        BY <2>2, <4>1, <4>2
      <4> QED
        BY <1>1, <4>2, <4>3
    <3> QED
      BY <2>3, <3>1, <3>2 DEF DecimalIn
  <2>4. CASE DecimalIn(p, q)
    BY <1>1, <2>3, <2>4
  <2>5. CASE \E j \in p..q : DecimalIn(p, j - 1)
    <3>1. PICK j \in p..q : DecimalIn(p, j - 1)
      BY <2>5
    <3>2. j \in Int /\ j - 1 \in Int /\ p <= j /\ j <= q
      BY <1>1
    <3>3. text[p] \in Digits
      BY <2>3, <3>1, <3>2
    <3> QED
      BY <1>1, <3>2, <3>3
  <2> QED
    BY <2>1, <2>4, <2>5 DEF NumberIn
<1>3. ASSUME IsWord(Rest(p, q)) PROVE p <= q /\ text[p] \in Opens
  <2>1. p <= q /\ text[p] \notin Digits /\ \A i \in p..q : text[i] \in Alnum
    BY <1>3, WordPlaces
  <2>2. text[p] \in Alnum
    BY <1>1, <2>1
  <2> QED
    BY <2>1, <2>2, FirstsApart
<1>4. ASSUME IsOperator(Rest(p, q))
      PROVE  p <= q /\ (text[p] \in Single \/ Seconds(text[p]) # {})
  <2>1. \/ q = p /\ text[p] \in Single
        \/ q = p + 1 /\ text[p + 1] \in Seconds(text[p])
    BY <1>4, OperatorPlaces
  <2> QED
    BY <1>1, <2>1
<1>5. ASSUME IsString(Rest(p, q)) PROVE p <= q /\ text[p] \in Quotes
  <2> DEFINE w == Rest(p, q)
  <2>1. w # <<>> /\ Head(w) \in Quotes
    BY <1>5 DEF IsString
  <2>2. /\ w \in Seq(STRING) /\ \A i \in 1 .. q - p + 1 : w[i] = text[p + i - 1]
        /\ w = <<>> <=> q = p - 1
    BY RestFacts
  <2> HIDE DEF w
  <2>3. p <= q
    BY <1>1, <2>1, <2>2
  <2>4. w[1] = text[p + 1 - 1]
    BY <1>1, <2>2, <2>3
  <2>5. Head(w) = w[1]
    BY <2>1, <2>2
  <2> QED
    BY <1>1, <2>1, <2>3, <2>4, <2>5
<1> QED
  BY <1>2, <1>3, <1>4, <1>5

(* What was read at a place: the longest lexeme, or that there is none.    *)
ReadsRight(read, p) ==
  \E q \in Positions :
    /\ p <= q /\ read.cursor = PlaceAt(q)
    /\ read.token.from = p /\ read.token.to = q
    /\ read.token.line = LineOf(p) /\ read.token.column = ColumnOf(p)
    /\ OfKind(read.token) /\ Longest(read.token)

(* A token between two places.                                             *)
LEMMA TokenFacts ==
  ASSUME NEW kind, NEW value, NEW p, NEW q
  PROVE  LET t == Token(kind, value, PlaceAt(p), PlaceAt(q)) IN
         /\ t.kind = kind /\ t.text = value /\ t.from = p /\ t.to = q
         /\ t.line = LineOf(p) /\ t.column = ColumnOf(p)
BY DEF Token, PlaceAt

(* What is between two cursors is the text between their places.           *)
LEMMA BetweenIs ==
  ASSUME NEW p, NEW q PROVE Between(PlaceAt(p), PlaceAt(q)) = Rest(p, q - 1)
BY DEF Between, Rest, PlaceAt

(* Words.                                                                  *)
LEMMA ReadWordRight ==
  ASSUME text \in Seq(STRING), NEW p \in Positions, p <= Len(text), text[p] \in Opens
  PROVE  ReadsRight(ReadWord(PlaceAt(p)), p)
<1>1. Len(text) \in Nat /\ p \in Nat \ {0}
  BY DEF Positions
<1>2. PICK q \in Positions : /\ While(PlaceAt(p), Alnum) = PlaceAt(q)
                             /\ p <= q /\ \A i \in p .. q - 1 : text[i] \in Alnum
                             /\ q <= Len(text) => text[q] \notin Alnum
  BY NoneIsNoClass, BreaksTogether, WhileAt
<1>3. text[p] \in Alnum /\ text[p] \notin Digits /\ text[p] \notin Quotes
      /\ text[p] \notin Single /\ Seconds(text[p]) = {}
  BY FirstsApart
<1>4. q \in Nat /\ q <= Len(text) + 1 /\ p < q
  <2>1. p # q
    BY <1>2, <1>3
  <2> QED
    BY <1>1, <1>2, <2>1 DEF Positions
<1>5. q - 1 \in p - 1 .. Len(text)
  BY <1>1, <1>4
<1>6. IsWord(Rest(p, q - 1))
  BY <1>1, <1>2, <1>3, <1>4, <1>5, WordPlaces
<1>7. ASSUME NEW r \in q .. Len(text) PROVE ~IsLexeme(Rest(p, r))
  <2>1. r \in p - 1 .. Len(text) /\ q \in p..r /\ q <= Len(text)
    BY <1>1, <1>4
  <2>2. ~IsWord(Rest(p, r))
    BY <1>2, <2>1, WordPlaces
  <2> QED
    BY <1>3, <2>1, <2>2, Beginnings DEF IsLexeme
<1> DEFINE word == Rest(p, q - 1)
           kind == IF ToUpper(word) \in Keywords THEN "keyword" ELSE "identifier"
           t == Token(kind, word, PlaceAt(p), PlaceAt(q))
<1>8. ReadWord(PlaceAt(p)) = [token |-> t, cursor |-> PlaceAt(q)]
  BY <1>2, BetweenIs DEF ReadWord
<1>9. /\ t.kind = kind /\ t.text = word /\ t.from = p /\ t.to = q
      /\ t.line = LineOf(p) /\ t.column = ColumnOf(p)
  BY TokenFacts
<1>10. kind \in {"identifier", "keyword"}
  OBVIOUS
<1> HIDE DEF t, kind, word
<1>11. OfKind(t)
  <2>1. t.kind = "identifier" \/ t.kind = "keyword"
    BY <1>9, <1>10
  <2> QED
    BY <1>6, <1>9, <2>1 DEF OfKind, word
<1>12. Longest(t)
  BY <1>7, <1>9 DEF Longest
<1> QED
  BY <1>4, <1>8, <1>9, <1>11, <1>12 DEF ReadsRight

(* No digit is at a place.                                                 *)
NoDigit(q) == q <= Len(text) => text[q] \notin Digits

(* A loop over digits ends behind the last digit of the run.               *)
LEMMA DigitsRun ==
  ASSUME text \in Seq(STRING), NEW p \in Positions
  PROVE  \E q \in Positions :
           /\ While(PlaceAt(p), Digits) = PlaceAt(q)
           /\ p <= q /\ (\A i \in p .. q - 1 : text[i] \in Digits) /\ NoDigit(q)
<1>1. None \notin Digits /\ "\r" \notin Digits
  BY NoneIsNoClass, BreaksTogether
<1>2. PICK q \in Positions : /\ While(PlaceAt(p), Digits) = PlaceAt(q)
                             /\ p <= q /\ \A i \in p .. q - 1 : text[i] \in Digits
                             /\ q <= Len(text) => text[q] \notin Digits
  BY <1>1, WhileAt
<1> QED
  BY <1>2 DEF NoDigit

(* One character further.                                                  *)
LEMMA AdvanceOver ==
  ASSUME text \in Seq(STRING), NEW p \in Positions, p <= Len(text), text[p] # "\r"
  PROVE  Advance(PlaceAt(p)) = PlaceAt(p + 1) /\ p + 1 \in Positions
<1>1. Len(text) \in Nat /\ p \in Nat \ {0}
  BY DEF Positions
<1>2. After(p) = p + 1
  BY <1>1 DEF After, PairAt
<1> QED
  BY <1>2, AdvanceAt

(* A character of a class is at a place of the text.                       *)
LEMMA CharIn ==
  ASSUME text \in Seq(STRING), NEW p \in Positions, NEW chars, None \notin chars
  PROVE  Char(PlaceAt(p)) \in chars <=> p <= Len(text) /\ text[p] \in chars
<1>1. Len(text) \in Nat /\ p \in Nat
  BY DEF Positions
<1> QED
  BY <1>1, CharAt

(* A fraction begins with a point that has a digit behind it.              *)
Pointed(q) ==
  q <= Len(text) /\ text[q] = "." /\ q + 1 <= Len(text) /\ text[q + 1] \in Digits

(* A fraction is read with all its digits, and only when it is one.        *)
LEMMA FractionAt ==
  ASSUME text \in Seq(STRING), NEW q \in Positions
  PROVE  \E r \in Positions :
           /\ Fraction(PlaceAt(q)) = PlaceAt(r)
           /\ \/ ~Pointed(q) /\ r = q
              \/ Pointed(q) /\ q + 1 < r /\ DigitsIn(q + 1, r - 1) /\ NoDigit(r)
<1>1. Len(text) \in Nat /\ q \in Nat \ {0}
  BY DEF Positions
<1>2. Char(PlaceAt(q)) = "." <=> q <= Len(text) /\ text[q] = "."
  <2>1. None \notin {"."}
    BY DEF None
  <2> QED
    BY <2>1, CharIn
<1>3. CASE ~(q <= Len(text) /\ text[q] = ".")
  BY <1>2, <1>3 DEF Fraction, Pointed
<1>4. CASE q <= Len(text) /\ text[q] = "."
  <2>1. Advance(PlaceAt(q)) = PlaceAt(q + 1) /\ q + 1 \in Positions
    BY <1>4, AdvanceOver
  <2>2. Char(PlaceAt(q + 1)) \in Digits <=> Pointed(q)
    BY <1>4, <2>1, NoneIsNoClass, CharIn DEF Pointed
  <2>3. CASE ~Pointed(q)
    BY <2>1, <2>2, <2>3 DEF Fraction
  <2>4. CASE Pointed(q)
    <3>1. PICK r \in Positions :
            /\ While(PlaceAt(q + 1), Digits) = PlaceAt(r)
            /\ q + 1 <= r /\ (\A i \in q + 1 .. r - 1 : text[i] \in Digits) /\ NoDigit(r)
      BY <2>1, DigitsRun
    <3>2. Fraction(PlaceAt(q)) = PlaceAt(r)
      BY <1>2, <1>4, <2>1, <2>2, <2>4, <3>1 DEF Fraction
    <3>3. r \in Nat /\ q + 1 # r
      BY <2>4, <3>1 DEF NoDigit, Pointed, Positions
    <3>4. q + 1 < r
      BY <1>1, <3>1, <3>3
    <3>5. DigitsIn(q + 1, r - 1)
      BY <1>1, <3>1, <3>3, <3>4 DEF DigitsIn
    <3> QED
      BY <2>4, <3>1, <3>2, <3>4, <3>5
  <2> QED
    BY <2>3, <2>4
<1> QED
  BY <1>3, <1>4

(* An exponent begins with an e, and has all digits that follow.           *)
Marked(q) == q <= Len(text) /\ text[q] \in {"e", "E"}

(* An exponent is read with all its digits, and only when it is one.       *)
LEMMA ExponentAt ==
  ASSUME text \in Seq(STRING), NEW q \in Positions
  PROVE  \E r \in Positions :
           /\ Exponent(PlaceAt(q)) = PlaceAt(r)
           /\ \/ r = q /\ ~\E x \in q .. Len(text) : Marked(q) /\ SignedIn(q + 1, x)
              \/ /\ Marked(q) /\ q + 1 < r /\ SignedIn(q + 1, r - 1)
                 /\ \A x \in r .. Len(text) : ~SignedIn(q + 1, x)
<1>1. Len(text) \in Nat /\ q \in Nat \ {0} /\ Positions = 1 .. Len(text) + 1
  BY DEF Positions
<1>2. Char(PlaceAt(q)) \in {"e", "E"} <=> Marked(q)
  <2>1. None \notin {"e", "E"}
    BY DEF None
  <2> QED
    BY <2>1, CharIn DEF Marked
<1>3. CASE ~Marked(q)
  BY <1>2, <1>3 DEF Exponent
<1>4. CASE Marked(q)
  <2>1. text[q] # "\r"
    BY <1>4 DEF Marked
  <2>2. Advance(PlaceAt(q)) = PlaceAt(q + 1) /\ q + 1 \in Positions
    BY <1>4, <2>1, AdvanceOver DEF Marked
  <2> DEFINE signed == q + 1 <= Len(text) /\ text[q + 1] \in Signs
             s == IF signed THEN q + 2 ELSE q + 1
             sign == IF Char(PlaceAt(q + 1)) \in Signs
                     THEN Advance(PlaceAt(q + 1)) ELSE PlaceAt(q + 1)
  <2>3. Char(PlaceAt(q + 1)) \in Signs <=> signed
    <3>1. None \notin Signs
      BY DEF None, Signs
    <3> QED
      BY <2>2, <3>1, CharIn
  <2>4. sign = PlaceAt(s) /\ s \in Positions
    <3>1. CASE signed
      <4>1. text[q + 1] # "\r"
        BY <3>1 DEF Signs
      <4>2. Advance(PlaceAt(q + 1)) = PlaceAt((q + 1) + 1) /\ (q + 1) + 1 \in Positions
        BY <2>2, <3>1, <4>1, AdvanceOver
      <4>3. (q + 1) + 1 = q + 2
        BY <1>1
      <4> QED
        BY <2>3, <3>1, <4>2, <4>3
    <3>2. CASE ~signed
      BY <2>2, <2>3, <3>2
    <3> QED
      BY <3>1, <3>2
  <2>5. Exponent(PlaceAt(q)) = IF Char(sign) \in Digits THEN While(sign, Digits) ELSE PlaceAt(q)
    BY <1>2, <1>4, <2>2 DEF Exponent
  <2> HIDE DEF sign
  <2>6. Char(PlaceAt(s)) \in Digits <=> s <= Len(text) /\ text[s] \in Digits
    BY <2>4, NoneIsNoClass, CharIn
  <2>7. \A x \in q .. Len(text) : SignedIn(q + 1, x) <=> DigitsIn(s, x)
    <3> SUFFICES ASSUME NEW x \in q .. Len(text)
                 PROVE  SignedIn(q + 1, x) <=> DigitsIn(s, x)
      OBVIOUS
    <3>1. CASE signed
      <4>1. text[q + 1] \notin Digits
        BY <3>1 DEF Signs, Digits
      <4>2. ~DigitsIn(q + 1, x)
        BY <1>1, <4>1 DEF DigitsIn
      <4>3. DigitsIn(q + 1 + 1, x) => q + 1 <= x
        BY <1>1 DEF DigitsIn
      <4>4. q + 1 + 1 = q + 2
        BY <1>1
      <4> QED
        BY <3>1, <4>2, <4>3, <4>4 DEF SignedIn
    <3>2. CASE ~signed
      <4>1. ~(q + 1 <= x /\ text[q + 1] \in Signs)
        BY <1>1, <3>2
      <4> QED
        BY <3>2, <4>1 DEF SignedIn
    <3> QED
      BY <3>1, <3>2
  <2>8. s \in Nat /\ q + 1 <= s
    BY <1>1
  <2> HIDE DEF s
  <2>9. CASE ~(s <= Len(text) /\ text[s] \in Digits)
    <3>1. Exponent(PlaceAt(q)) = PlaceAt(q)
      BY <2>4, <2>5, <2>6, <2>9
    <3>2. ASSUME NEW x \in q .. Len(text), SignedIn(q + 1, x) PROVE FALSE
      <4>1. DigitsIn(s, x)
        BY <2>7, <3>2
      <4>2. s <= x /\ text[s] \in Digits
        BY <2>8, <4>1 DEF DigitsIn
      <4> QED
        BY <1>1, <2>8, <2>9, <4>2
    <3> QED
      BY <3>1, <3>2
  <2>10. CASE s <= Len(text) /\ text[s] \in Digits
    <3>1. PICK r \in Positions :
            /\ While(PlaceAt(s), Digits) = PlaceAt(r)
            /\ s <= r /\ (\A i \in s .. r - 1 : text[i] \in Digits) /\ NoDigit(r)
      BY <2>4, DigitsRun
    <3>2. Exponent(PlaceAt(q)) = PlaceAt(r)
      BY <2>4, <2>5, <2>6, <2>10, <3>1
    <3>3. r \in Nat /\ r <= Len(text) + 1 /\ s < r
      <4>1. s # r
        BY <2>10, <3>1 DEF NoDigit
      <4> QED
        BY <1>1, <2>8, <3>1, <4>1
    <3>4. DigitsIn(s, r - 1) /\ r - 1 \in q .. Len(text) /\ q + 1 < r
      BY <1>1, <2>8, <3>1, <3>3 DEF DigitsIn
    <3>5. SignedIn(q + 1, r - 1)
      BY <2>7, <3>4
    <3>6. ASSUME NEW x \in r .. Len(text), SignedIn(q + 1, x) PROVE FALSE
      <4>1. x \in q .. Len(text) /\ r \in s..x /\ r <= Len(text)
        BY <1>1, <2>8, <3>3
      <4>2. DigitsIn(s, x)
        BY <2>7, <3>6, <4>1
      <4> QED
        BY <3>1, <4>1, <4>2 DEF DigitsIn, NoDigit
    <3> QED
      BY <1>4, <3>2, <3>4, <3>5, <3>6
  <2> QED
    BY <2>9, <2>10
<1> QED
  BY <1>3, <1>4

(* Which decimals begin where digits do.                                   *)
LEMMA DecimalsFrom ==
  ASSUME text \in Seq(STRING), NEW p \in Positions, NEW q \in Positions, NEW r \in Positions,
         p < q, \A i \in p .. q - 1 : text[i] \in Digits, NoDigit(q),
         \/ ~Pointed(q) /\ r = q
         \/ Pointed(q) /\ q + 1 < r /\ DigitsIn(q + 1, r - 1) /\ NoDigit(r)
  PROVE  /\ q <= r /\ DecimalIn(p, r - 1)
         /\ \A x \in p - 1 .. Len(text) : DecimalIn(p, x) => x < r
         /\ \A i \in p .. r - 1 : text[i] \notin {"e", "E"}
<1>1. /\ Len(text) \in Nat /\ p \in Nat \ {0} /\ q \in Nat /\ r \in Nat
      /\ q <= Len(text) + 1 /\ r <= Len(text) + 1
  BY DEF Positions
<1>2. q <= r
  BY <1>1
<1>3. DigitsIn(p, q - 1)
  BY <1>1 DEF DigitsIn
<1>4. DecimalIn(p, r - 1)
  <2>1. CASE ~Pointed(q)
    BY <1>3, <2>1 DEF DecimalIn
  <2>2. CASE Pointed(q)
    <3>1. q \in p .. r - 1 /\ text[q] = "." /\ DigitsIn(q + 1, r - 1)
      BY <1>1, <2>2 DEF Pointed
    <3> QED
      BY <1>3, <3>1 DEF DecimalIn
  <2> QED
    BY <2>1, <2>2
<1>5. ASSUME NEW x \in p - 1 .. Len(text), DigitsIn(p, x) PROVE x < q
  <2> SUFFICES ASSUME x >= q PROVE FALSE
    BY <1>1
  <2>1. q \in p..x /\ q <= Len(text)
    BY <1>1
  <2> QED
    BY <1>5, <2>1 DEF DigitsIn, NoDigit
<1>6. ASSUME NEW x \in p - 1 .. Len(text), DecimalIn(p, x) PROVE x < r
  <2>1. CASE DigitsIn(p, x)
    BY <1>1, <1>2, <1>5, <2>1
  <2>2. CASE \E j \in p..x : text[j] = "." /\ DigitsIn(p, j - 1) /\ DigitsIn(j + 1, x)
    <3>1. PICK j \in p..x : text[j] = "." /\ DigitsIn(p, j - 1) /\ DigitsIn(j + 1, x)
      BY <2>2
    <3>2. j \in Nat /\ p <= j /\ j <= Len(text) /\ j - 1 \in p - 1 .. Len(text)
      BY <1>1
    <3>3. j <= q
      <4>1. j - 1 < q
        BY <1>5, <3>1, <3>2
      <4> QED
        BY <1>1, <3>2, <4>1
    <3>4. j = q
      <4> SUFFICES ASSUME j # q PROVE FALSE
        OBVIOUS
      <4>1. j \in p .. q - 1
        BY <1>1, <3>2, <3>3
      <4>2. "." \notin Digits
        BY DEF Digits
      <4> QED
        BY <3>1, <4>1, <4>2
    <3>5. q + 1 <= x /\ text[q + 1] \in Digits
      BY <1>1, <3>1, <3>4 DEF DigitsIn
    <3>6. Pointed(q)
      BY <1>1, <3>1, <3>2, <3>4, <3>5 DEF Pointed
    <3> SUFFICES ASSUME x >= r PROVE FALSE
      BY <1>1
    <3>7. r \in q + 1 .. x /\ r <= Len(text)
      BY <1>1, <3>6
    <3>8. text[r] \in Digits
      BY <3>1, <3>4, <3>7 DEF DigitsIn
    <3> QED
      BY <3>6, <3>7, <3>8 DEF NoDigit
  <2> QED
    BY <1>6, <2>1, <2>2 DEF DecimalIn
<1>7. ASSUME NEW i \in p .. r - 1 PROVE text[i] \notin {"e", "E"}
  <2>1. CASE i < q
    <3>1. text[i] \in Digits
      BY <1>1, <2>1
    <3> QED
      BY <3>1, FirstsApart
  <2>2. CASE i = q
    <3>1. Pointed(q)
      BY <1>1, <2>2
    <3> QED
      BY <2>2, <3>1 DEF Pointed
  <2>3. CASE i > q
    <3>1. Pointed(q) /\ i \in q + 1 .. r - 1
      BY <1>1, <2>3
    <3>2. text[i] \in Digits
      BY <3>1 DEF DigitsIn
    <3> QED
      BY <3>2, FirstsApart
  <2> QED
    BY <1>1, <2>1, <2>2, <2>3
<1> QED
  BY <1>2, <1>4, <1>6, <1>7

(* Numbers.                                                                *)
LEMMA ReadNumberRight ==
  ASSUME text \in Seq(STRING), NEW p \in Positions, p <= Len(text), text[p] \in Digits
  PROVE  ReadsRight(ReadNumber(PlaceAt(p)), p)
<1>1. Len(text) \in Nat /\ p \in Nat \ {0}
  BY DEF Positions
<1>2. PICK q \in Positions :
        /\ While(PlaceAt(p), Digits) = PlaceAt(q)
        /\ p <= q /\ (\A i \in p .. q - 1 : text[i] \in Digits) /\ NoDigit(q)
  BY DigitsRun
<1>3. p < q
  <2>1. p # q
    BY <1>2 DEF NoDigit
  <2> QED
    BY <1>1, <1>2, <2>1 DEF Positions
<1>4. PICK r \in Positions :
        /\ Fraction(PlaceAt(q)) = PlaceAt(r)
        /\ \/ ~Pointed(q) /\ r = q
           \/ Pointed(q) /\ q + 1 < r /\ DigitsIn(q + 1, r - 1) /\ NoDigit(r)
  BY FractionAt
<1>5. PICK s \in Positions :
        /\ Exponent(PlaceAt(r)) = PlaceAt(s)
        /\ \/ s = r /\ ~\E x \in r .. Len(text) : Marked(r) /\ SignedIn(r + 1, x)
           \/ /\ Marked(r) /\ r + 1 < s /\ SignedIn(r + 1, s - 1)
              /\ \A x \in s .. Len(text) : ~SignedIn(r + 1, x)
  BY ExponentAt
<1>6. /\ q <= r /\ DecimalIn(p, r - 1)
      /\ \A x \in p - 1 .. Len(text) : DecimalIn(p, x) => x < r
      /\ \A i \in p .. r - 1 : text[i] \notin {"e", "E"}
  BY <1>2, <1>3, <1>4, DecimalsFrom
<1>7. /\ q \in Nat /\ r \in Nat /\ s \in Nat /\ r <= s
      /\ q <= Len(text) + 1 /\ r <= Len(text) + 1 /\ s <= Len(text) + 1
  BY <1>5 DEF Positions
<1>8. NumberIn(p, s - 1)
  <2>1. CASE s = r
    BY <1>6, <2>1 DEF NumberIn
  <2>2. CASE Marked(r) /\ r + 1 < s /\ SignedIn(r + 1, s - 1)
    <3>1. r \in p .. s - 1 /\ text[r] \in {"e", "E"}
      BY <1>1, <1>3, <1>6, <1>7, <2>2 DEF Marked
    <3> QED
      BY <1>6, <2>2, <3>1 DEF NumberIn
  <2> QED
    BY <1>5, <2>1, <2>2
<1>9. ASSUME NEW x \in s .. Len(text) PROVE ~NumberIn(p, x)
  <2>1. x \in p - 1 .. Len(text) /\ x \in r .. Len(text) /\ ~(x < r)
    BY <1>1, <1>3, <1>6, <1>7
  <2>2. ~DecimalIn(p, x)
    BY <1>6, <2>1
  <2>3. ASSUME NEW j \in p..x, text[j] \in {"e", "E"}, DecimalIn(p, j - 1),
               SignedIn(j + 1, x)
        PROVE  FALSE
    <3>1. j \in Nat /\ p <= j /\ j <= Len(text) /\ j - 1 \in p - 1 .. Len(text)
      BY <1>1, <1>7, <2>1
    <3>2. j - 1 < r
      BY <1>6, <2>3, <3>1
    <3>3. j \notin p .. r - 1
      BY <1>6, <2>3
    <3>4. j = r
      BY <1>1, <1>7, <3>1, <3>2, <3>3
    <3> QED
      BY <1>5, <2>1, <2>3, <3>1, <3>4 DEF Marked
  <2> QED
    BY <2>2, <2>3 DEF NumberIn
<1>10. s - 1 \in p - 1 .. Len(text)
  BY <1>1, <1>3, <1>6, <1>7
<1>11. IsNumber(Rest(p, s - 1)) /\ (IsDigits(Rest(p, s - 1)) <=> DigitsIn(p, s - 1))
  BY <1>8, <1>10, NumberPlaces, DigitsPlaces
<1>12. DigitsIn(p, s - 1) <=> s = q
  <2>1. CASE s = q
    BY <1>1, <1>2, <1>3, <1>7, <2>1 DEF DigitsIn
  <2>2. CASE s # q
    <3>1. q \in p .. s - 1 /\ q <= Len(text)
      BY <1>1, <1>3, <1>6, <1>7, <2>2
    <3> QED
      BY <1>2, <2>2, <3>1 DEF DigitsIn, NoDigit
  <2> QED
    BY <2>1, <2>2
<1>13. ASSUME NEW x \in s .. Len(text) PROVE ~IsLexeme(Rest(p, x))
  <2>1. x \in p - 1 .. Len(text)
    BY <1>1, <1>3, <1>6, <1>7
  <2>2. ~IsNumber(Rest(p, x))
    BY <1>9, <2>1, NumberPlaces
  <2> QED
    BY <2>1, <2>2, Beginnings, FirstsApart DEF IsLexeme
<1> DEFINE word == Rest(p, s - 1)
           kind == IF s = q THEN "integer" ELSE "float"
           t == Token(kind, word, PlaceAt(p), PlaceAt(s))
<1>14. PlaceAt(s) = PlaceAt(q) <=> s = q
  BY DEF PlaceAt
<1>15. ReadNumber(PlaceAt(p)) = [token |-> t, cursor |-> PlaceAt(s)]
  BY <1>2, <1>4, <1>5, <1>14, BetweenIs DEF ReadNumber
<1>16. /\ t.kind = kind /\ t.text = word /\ t.from = p /\ t.to = s
       /\ t.line = LineOf(p) /\ t.column = ColumnOf(p)
  BY TokenFacts
<1> HIDE DEF t, word
<1>17. OfKind(t)
  BY <1>11, <1>12, <1>16 DEF OfKind, word
<1>18. Longest(t)
  BY <1>13, <1>16 DEF Longest
<1>19. p <= s
  BY <1>1, <1>3, <1>6, <1>7
<1> HIDE DEF kind
<1> QED
  BY <1>15, <1>16, <1>17, <1>18, <1>19 DEF ReadsRight

(* Operators, and characters that begin nothing.                           *)
LEMMA ReadOperatorRight ==
  ASSUME text \in Seq(STRING), NEW p \in Positions, p <= Len(text),
         text[p] \notin Opens, text[p] \notin Digits, text[p] \notin Quotes, text[p] # "\r"
  PROVE  ReadsRight(ReadOperator(PlaceAt(p)), p)
<1>1. Len(text) \in Nat /\ p \in Nat \ {0}
  BY DEF Positions
<1>2. Advance(PlaceAt(p)) = PlaceAt(p + 1) /\ p + 1 \in Positions
  BY AdvanceOver
<1>3. Char(PlaceAt(p)) = text[p]
  BY <1>1, CharAt
<1> DEFINE two == p + 1 <= Len(text) /\ text[p + 1] \in Seconds(text[p])
           q == IF two THEN p + 2 ELSE p + 1
           known == text[p] \in Single \/ two
           word == Rest(p, q - 1)
           kind == IF known THEN "operator" ELSE "error"
           t == Token(kind, word, PlaceAt(p), PlaceAt(q))
           end == IF Char(PlaceAt(p + 1)) \in Seconds(text[p])
                  THEN Advance(PlaceAt(p + 1)) ELSE PlaceAt(p + 1)
<1>4. Char(PlaceAt(p + 1)) \in Seconds(text[p]) <=> two
  <2>1. None \notin Seconds(text[p])
    BY FirstsApart
  <2> QED
    BY <1>2, <2>1, CharIn
<1>5. end = PlaceAt(q) /\ q \in Positions
  <2>1. CASE two
    <3>1. text[p + 1] # "\r"
      BY <2>1, FirstsApart
    <3>2. Advance(PlaceAt(p + 1)) = PlaceAt((p + 1) + 1) /\ (p + 1) + 1 \in Positions
      BY <1>2, <2>1, <3>1, AdvanceOver
    <3>3. (p + 1) + 1 = p + 2
      BY <1>1
    <3> QED
      BY <1>4, <2>1, <3>2, <3>3
  <2>2. CASE ~two
    BY <1>2, <1>4, <2>2
  <2> QED
    BY <2>1, <2>2
<1>6. PlaceAt(q) # PlaceAt(p + 1) <=> two
  <2>1. PlaceAt(q).position = q /\ PlaceAt(p + 1).position = p + 1
    BY CharAt
  <2>2. q = p + 1 <=> ~two
    BY <1>1
  <2> QED
    BY <2>1, <2>2
<1>7. ReadOperator(PlaceAt(p)) = [token |-> t, cursor |-> PlaceAt(q)]
  <2>1. ReadOperator(PlaceAt(p)) =
          [token |-> Token(IF text[p] \in Single \/ end # PlaceAt(p + 1)
                           THEN "operator" ELSE "error",
                           Between(PlaceAt(p), end), PlaceAt(p), end),
           cursor |-> end]
    BY <1>2, <1>3 DEF ReadOperator
  <2> HIDE DEF end, q, two
  <2> QED
    BY <1>5, <1>6, <2>1, BetweenIs
<1>8. /\ t.kind = kind /\ t.text = word /\ t.from = p /\ t.to = q
      /\ t.line = LineOf(p) /\ t.column = ColumnOf(p)
  BY TokenFacts
<1>9. q \in Nat /\ p < q /\ q - 1 \in p - 1 .. Len(text) /\ q <= Len(text) + 1
  BY <1>1, <1>5 DEF Positions
<1>10. known => IsOperator(word)
  <2>1. IsOperator(Rest(p, q - 1)) <=> \/ q - 1 = p /\ text[p] \in Single
                                       \/ q - 1 = p + 1 /\ text[p + 1] \in Seconds(text[p])
    BY <1>9, OperatorPlaces
  <2> QED
    BY <1>1, <2>1
<1>11. ASSUME NEW x \in q .. Len(text) PROVE ~IsLexeme(Rest(p, x))
  <2>1. x \in p - 1 .. Len(text) /\ x > p
    BY <1>1, <1>9
  <2>2. IsOperator(Rest(p, x)) <=> \/ x = p /\ text[p] \in Single
                                   \/ x = p + 1 /\ text[p + 1] \in Seconds(text[p])
    BY <2>1, OperatorPlaces
  <2>3. ~IsOperator(Rest(p, x))
    BY <1>1, <2>1, <2>2
  <2> QED
    BY <2>1, <2>3, Beginnings DEF IsLexeme
<1>12. ASSUME ~known, NEW x \in p .. Len(text) PROVE ~IsLexeme(Rest(p, x))
  <2>1. x \in p - 1 .. Len(text)
    BY <1>1
  <2>2. IsOperator(Rest(p, x)) <=> \/ x = p /\ text[p] \in Single
                                   \/ x = p + 1 /\ text[p + 1] \in Seconds(text[p])
    BY <2>1, OperatorPlaces
  <2>3. ~IsOperator(Rest(p, x))
    BY <1>1, <1>12, <2>2
  <2> QED
    BY <2>1, <2>3, Beginnings DEF IsLexeme
<1>13. word # <<>>
  BY <1>1, <1>9, RestFacts
<1> HIDE DEF t, word, q, known
<1>14. OfKind(t)
  <2>1. Rest(t.from, t.to - 1) = word
    BY <1>8 DEF word
  <2>2. CASE known
    BY <1>8, <1>10, <2>1, <2>2 DEF OfKind
  <2>3. CASE ~known
    BY <1>8, <1>12, <1>13, <2>1, <2>3 DEF OfKind
  <2> QED
    BY <2>2, <2>3
<1>15. Longest(t)
  BY <1>8, <1>11 DEF Longest
<1> QED
  BY <1>5, <1>7, <1>8, <1>9, <1>14, <1>15 DEF ReadsRight

(* What is escaped: the character behind a backslash that is not.          *)
LEMMA EscapedNext ==
  ASSUME NEW w
  PROVE  /\ ~Escaped(w, 2)
         /\ \A i \in Nat \ {0, 1} : Escaped(w, i + 1) <=> w[i] = "\\" /\ ~Escaped(w, i)
<1> DEFINE Run(i) == {j \in 2 .. i - 1 : \A k \in j .. i - 1 : w[k] = "\\"}
<1>1. \A i \in Nat : IsFiniteSet(Run(i)) /\ Cardinality(Run(i)) \in Nat
  <2> SUFFICES ASSUME NEW i \in Nat PROVE IsFiniteSet(Run(i)) /\ Cardinality(Run(i)) \in Nat
    OBVIOUS
  <2>1. IsFiniteSet(2 .. i - 1)
    BY FS_Interval
  <2>2. Run(i) \subseteq 2 .. i - 1
    OBVIOUS
  <2> HIDE DEF Run
  <2> QED
    BY <2>1, <2>2, FS_Subset, FS_CardinalityType
<1>2. \A i : Escaped(w, i) <=> Cardinality(Run(i)) % 2 = 1
  BY DEF Escaped
<1>3. ~Escaped(w, 2)
  <2>1. Run(2) = {}
    OBVIOUS
  <2>2. Cardinality({}) = 0
    BY FS_EmptySet
  <2>3. Cardinality(Run(2)) = 0
    BY <2>1, <2>2
  <2> QED
    BY <1>2, <2>3
<1>4. ASSUME NEW i \in Nat \ {0, 1}
      PROVE  Escaped(w, i + 1) <=> w[i] = "\\" /\ ~Escaped(w, i)
  <2>1. CASE w[i] = "\\"
    <3>1. Run(i + 1) = Run(i) \cup {i}
      <4>1. ASSUME NEW j \in Run(i + 1) PROVE j \in Run(i) \cup {i}
        <5>1. j \in 2 .. i /\ \A k \in j .. (i + 1) - 1 : w[k] = "\\"
          OBVIOUS
        <5>2. \A k \in j .. i - 1 : k \in j .. (i + 1) - 1
          OBVIOUS
        <5>3. j = i \/ j \in 2 .. i - 1
          BY <5>1
        <5> QED
          BY <5>1, <5>2, <5>3
      <4>2. ASSUME NEW j \in Run(i) PROVE j \in Run(i + 1)
        <5>1. j \in 2 .. i - 1 /\ \A k \in j .. i - 1 : w[k] = "\\"
          OBVIOUS
        <5>2. j \in 2 .. (i + 1) - 1
          BY <5>1
        <5>3. \A k \in j .. (i + 1) - 1 : k \in j .. i - 1 \/ k = i
          OBVIOUS
        <5> QED
          BY <2>1, <5>1, <5>2, <5>3
      <4>3. i \in Run(i + 1)
        <5>1. i \in 2 .. (i + 1) - 1 /\ \A k \in i .. (i + 1) - 1 : k = i
          OBVIOUS
        <5> QED
          BY <2>1, <5>1
      <4> HIDE DEF Run
      <4> QED
        BY <4>1, <4>2, <4>3
    <3>2. i \notin Run(i)
      OBVIOUS
    <3> HIDE DEF Run
    <3>3. Cardinality(Run(i + 1)) = Cardinality(Run(i)) + 1
      BY <1>1, <3>1, <3>2, FS_AddElement
    <3>4. Cardinality(Run(i)) \in Nat
      BY <1>1
    <3>5. \A n \in Nat : (n + 1) % 2 = 1 <=> ~(n % 2 = 1)
      OBVIOUS
    <3>6. (Cardinality(Run(i)) + 1) % 2 = 1 <=> ~(Cardinality(Run(i)) % 2 = 1)
      BY <3>4, <3>5
    <3> QED
      BY <1>2, <2>1, <3>3, <3>6
  <2>2. CASE w[i] # "\\"
    <3>1. Run(i + 1) = {}
      <4> SUFFICES ASSUME NEW j \in Run(i + 1) PROVE FALSE
        OBVIOUS
      <4>1. i \in j .. (i + 1) - 1
        OBVIOUS
      <4> QED
        BY <2>2, <4>1
    <3> HIDE DEF Run
    <3>2. Cardinality({}) = 0
      BY FS_EmptySet
    <3>3. Cardinality(Run(i + 1)) = 0
      BY <3>1, <3>2
    <3> QED
      BY <1>2, <2>2, <3>3
  <2> QED
    BY <2>1, <2>2
<1> QED
  BY <1>3, <1>4

(* It does not depend on what is behind it.                                *)
LEMMA EscapedBefore ==
  ASSUME NEW w, NEW v, NEW i \in Nat, \A k \in 2 .. i - 1 : w[k] = v[k]
  PROVE  Escaped(w, i) <=> Escaped(v, i)
<1>1. {j \in 2 .. i - 1 : \A k \in j .. i - 1 : w[k] = "\\"}
        = {j \in 2 .. i - 1 : \A k \in j .. i - 1 : v[k] = "\\"}
  <2>1. \A j \in 2 .. i - 1 : \A k \in j .. i - 1 : k \in 2 .. i - 1
    OBVIOUS
  <2> QED
    BY <2>1
<1> QED
  BY <1>1 DEF Escaped

(* Strings, by the text from the opening quote on.                         *)
Tailed(p) == Rest(p, Len(text))

(* A text is a string when its first end is its last character.            *)
LEMMA StringPlaces ==
  ASSUME text \in Seq(STRING), NEW p \in Positions, NEW q \in p .. Len(text)
  PROVE  IsString(Rest(p, q)) <=>
           /\ text[p] \in Quotes /\ Closes(Tailed(p), q - p + 1)
           /\ \A i \in 1 .. q - p : ~Closes(Tailed(p), i) /\ ~Broken(Tailed(p), i)
<1>1. Len(text) \in Nat /\ p \in Nat \ {0} /\ q \in Nat /\ p <= q /\ q <= Len(text)
  BY DEF Positions
<1> DEFINE w == Rest(p, q)
           v == Tailed(p)
<1>2. /\ w \in Seq(STRING) /\ Len(w) = q - p + 1
      /\ \A i \in 1 .. q - p + 1 : w[i] = text[p + i - 1]
      /\ w # <<>>
  <2>1. q \in p - 1 .. Len(text) /\ q # p - 1
    BY <1>1
  <2> QED
    BY <2>1, RestFacts
<1>3. \A i \in 1 .. Len(text) - p + 1 : v[i] = text[p + i - 1]
  <2>1. Len(text) \in p - 1 .. Len(text)
    BY <1>1
  <2> QED
    BY <2>1, RestFacts DEF Tailed
<1> HIDE DEF w, v
<1>4. \A i \in 1 .. q - p + 1 : w[i] = v[i]
  <2>1. \A i \in 1 .. q - p + 1 : i \in 1 .. Len(text) - p + 1
    BY <1>1
  <2> QED
    BY <1>2, <1>3, <2>1
<1>5. w[1] = v[1] /\ w[1] = text[p] /\ Head(w) = w[1]
  <2>1. 1 \in 1 .. q - p + 1 /\ p + 1 - 1 = p
    BY <1>1
  <2> QED
    BY <1>2, <1>4, <2>1
<1>6. ASSUME NEW i \in 1 .. q - p + 1
      PROVE  (Closes(w, i) <=> Closes(v, i)) /\ (Broken(w, i) <=> Broken(v, i))
  <2>1. i \in Nat /\ i - 1 \in Nat /\ w[i] = v[i]
    BY <1>1, <1>4
  <2>2. Escaped(w, i) <=> Escaped(v, i)
    <3>1. \A k \in 2 .. i - 1 : k \in 1 .. q - p + 1
      BY <1>1
    <3>2. \A k \in 2 .. i - 1 : w[k] = v[k]
      BY <1>4, <3>1
    <3> QED
      BY <2>1, <3>2, EscapedBefore
  <2>3. Escaped(w, i - 1) <=> Escaped(v, i - 1)
    <3>1. \A k \in 2 .. (i - 1) - 1 : k \in 1 .. q - p + 1
      BY <1>1
    <3>2. \A k \in 2 .. (i - 1) - 1 : w[k] = v[k]
      BY <1>4, <3>1
    <3> QED
      BY <2>1, <3>2, EscapedBefore
  <2>4. i > 1 => w[i - 1] = v[i - 1]
    <3>1. i > 1 => i - 1 \in 1 .. q - p + 1
      BY <1>1
    <3> QED
      BY <1>4, <3>1
  <2> QED
    BY <1>5, <2>1, <2>2, <2>3, <2>4 DEF Closes, Broken
<1>7. \A i \in 1 .. q - p : i \in 1 .. q - p + 1
  BY <1>1
<1>8. Len(w) - 1 = q - p /\ q - p + 1 \in 1 .. q - p + 1
  BY <1>1, <1>2
<1>9. IsString(w) <=> /\ text[p] \in Quotes /\ Closes(w, q - p + 1)
                      /\ \A i \in 1 .. q - p : ~Closes(w, i) /\ ~Broken(w, i)
  BY <1>2, <1>5, <1>8 DEF IsString
<1> QED
  BY <1>6, <1>7, <1>8, <1>9 DEF w, v

(* What is at a place is in the tail.                                      *)
LEMMA TailedAt ==
  ASSUME text \in Seq(STRING), NEW p \in Positions, NEW x \in p .. Len(text)
  PROVE  Tailed(p)[x - p + 1] = text[x]
<1>1. Len(text) \in Nat /\ p \in Nat \ {0}
  BY DEF Positions
<1>2. Len(text) \in p - 1 .. Len(text) /\ x - p + 1 \in 1 .. Len(text) - p + 1
      /\ p + (x - p + 1) - 1 = x
  BY <1>1
<1> QED
  BY <1>2, RestFacts DEF Tailed

(* In a string that begins at p, before x: no end and no line that breaks. *)
Open(p, x) ==
  /\ \A i \in 1 .. x - p : ~Closes(Tailed(p), i) /\ ~Broken(Tailed(p), i)
  /\ ~PairAt(x - 1)

(* A character that does not end the string is passed.                     *)
LEMMA OpenNext ==
  ASSUME text \in Seq(STRING), NEW p \in Positions, p <= Len(text), text[p] \in Quotes,
         NEW x \in p + 1 .. Len(text), Open(p, x),
         Escaped(Tailed(p), x - p + 1) \/ text[x] \notin Breaks \cup {text[p]}
  PROVE  /\ Open(p, After(x))
         /\ Escaped(Tailed(p), After(x) - p + 1)
              <=> ~Escaped(Tailed(p), x - p + 1) /\ text[x] = "\\"
<1>1. Len(text) \in Nat /\ p \in Nat \ {0} /\ x \in Nat /\ p < x /\ x <= Len(text)
  BY DEF Positions
<1> DEFINE v == Tailed(p)
           i == x - p + 1
<1>2. i \in Nat \ {0, 1} /\ x - p = i - 1
  BY <1>1
<1>3. v[i] = text[x] /\ v[1] = text[p]
  <2>1. x \in p .. Len(text) /\ p \in p .. Len(text) /\ p - p + 1 = 1
    BY <1>1
  <2>2. v[p - p + 1] = text[p]
    BY <2>1, TailedAt
  <2> QED
    BY <2>1, <2>2, TailedAt
<1>4. \A k \in 1 .. i - 1 : ~Closes(v, k) /\ ~Broken(v, k)
  BY <1>2 DEF Open
<1>5. Escaped(v, i) \/ text[x] \notin Breaks \cup {text[p]}
  OBVIOUS
<1> HIDE DEF v
<1>6. ~Closes(v, i) /\ ~Broken(v, i)
  <2> HIDE DEF i
  <2> QED
    BY <1>3, <1>5 DEF Closes, Broken
<1>7. Escaped(v, i + 1) <=> text[x] = "\\" /\ ~Escaped(v, i)
  BY <1>2, <1>3, EscapedNext
<1>8. CASE PairAt(x)
  <2>1. After(x) = x + 2 /\ x + 1 <= Len(text) /\ text[x] = "\r" /\ text[x + 1] = "\n"
    BY <1>1, <1>8 DEF After, PairAt
  <2>2. Escaped(v, i)
    BY <1>5, <2>1 DEF Breaks
  <2>3. v[i + 1] = "\n"
    <3>1. x + 1 \in p .. Len(text) /\ (x + 1) - p + 1 = i + 1
      BY <1>1, <2>1
    <3>2. Tailed(p)[(x + 1) - p + 1] = text[x + 1]
      BY <3>1, TailedAt
    <3> QED
      BY <2>1, <3>1, <3>2 DEF v
  <2>4. ~Closes(v, i + 1)
    <3>1. text[p] # "\n"
      BY FirstsApart
    <3> QED
      BY <1>3, <2>3, <3>1 DEF Closes
  <2>5. ~Broken(v, i + 1)
    <3>1. (i + 1) - 1 = i
      BY <1>2
    <3>2. v[(i + 1) - 1] = "\r" /\ Escaped(v, (i + 1) - 1)
      BY <1>3, <2>1, <2>2, <3>1
    <3> HIDE DEF i
    <3> QED
      BY <2>3, <3>2 DEF Broken
  <2>6. ASSUME NEW k \in 1 .. After(x) - p PROVE ~Closes(v, k) /\ ~Broken(v, k)
    <3>1. k \in 1 .. i - 1 \/ k = i \/ k = i + 1
      BY <1>1, <2>1
    <3> HIDE DEF i
    <3> QED
      BY <1>4, <1>6, <2>4, <2>5, <3>1
  <2>7. ~PairAt(After(x) - 1)
    <3>1. After(x) - 1 = x + 1
      BY <1>1, <2>1
    <3> QED
      BY <2>1, <3>1 DEF PairAt
  <2>8. After(x) - p + 1 = (i + 1) + 1 /\ i + 1 \in Nat \ {0, 1}
    BY <1>1, <2>1
  <2>9. ~Escaped(v, (i + 1) + 1)
    <3>1. v[i + 1] # "\\"
      BY <2>3
    <3> HIDE DEF i
    <3> QED
      BY <2>8, <3>1, EscapedNext
  <2>10. text[x] # "\\"
    BY <2>1
  <2> QED
    BY <2>6, <2>7, <2>8, <2>9, <2>10 DEF Open, v
<1>9. CASE ~PairAt(x)
  <2>1. After(x) = x + 1
    BY <1>1, <1>9 DEF After
  <2>2. ASSUME NEW k \in 1 .. After(x) - p PROVE ~Closes(v, k) /\ ~Broken(v, k)
    <3>1. k \in 1 .. i - 1 \/ k = i
      BY <1>1, <2>1
    <3> HIDE DEF i
    <3> QED
      BY <1>4, <1>6, <3>1
  <2>3. After(x) - 1 = x /\ After(x) - p + 1 = i + 1
    BY <1>1, <2>1
  <2> HIDE DEF i
  <2>4. ~PairAt(After(x) - 1)
    BY <1>9, <2>3
  <2>5. Open(p, After(x))
    BY <2>2, <2>4 DEF Open, v
  <2> QED
    BY <1>7, <2>3, <2>5 DEF v, i
<1> QED
  BY <1>8, <1>9

(* The loop of read_string, as the model has it.                           *)
StopsAt(s, quote) == AtEnd(s.cursor) \/ (~s.escaped /\ Char(s.cursor) \in Breaks \cup {quote})
StepOf(s) ==
  [cursor |-> Advance(s.cursor),
   escaped |-> ~s.escaped /\ Char(s.cursor) = "\\",
   value |-> IF s.escaped THEN Append(s.value, Escape(Char(s.cursor)))
             ELSE IF Char(s.cursor) = "\\" THEN s.value
             ELSE Append(s.value, Char(s.cursor))]
StartOf(c) == [cursor |-> Advance(c), escaped |-> FALSE, value |-> <<>>]

(* What it works on.                                                       *)
Characters == STRING \cup {None, "\n", "\r"}
Strings == [cursor : Places, escaped : BOOLEAN, value : Seq(Characters)]

(* A step of the loop in read_string leaves what the loop works on.        *)
LEMMA StepTyped ==
  ASSUME text \in Seq(STRING), NEW s \in Strings PROVE StepOf(s) \in Strings
<1>1. PICK x \in Positions : s.cursor = PlaceAt(x)
  BY DEF Strings, Places
<1>2. Advance(s.cursor) \in Places
  <2>1. Advance(PlaceAt(x)) = PlaceAt(After(x)) /\ After(x) \in Positions
    BY AdvanceAt
  <2> QED
    BY <1>1, <2>1 DEF Places
<1>3. Char(s.cursor) \in Characters
  <2>1. Char(PlaceAt(x)) = IF x > Len(text) THEN None ELSE text[x]
    BY CharAt
  <2>2. Len(text) \in Nat /\ x \in Nat \ {0}
    BY DEF Positions
  <2>3. CASE x > Len(text)
    BY <1>1, <2>1, <2>3 DEF Characters
  <2>4. CASE ~(x > Len(text))
    <3>1. x \in 1 .. Len(text)
      BY <2>2, <2>4
    <3>2. text[x] \in STRING
      BY <3>1
    <3> QED
      BY <1>1, <2>1, <2>4, <3>2 DEF Characters
  <2> QED
    BY <2>3, <2>4
<1>4. Escape(Char(s.cursor)) \in Characters
  <2>1. "\n" \in Characters /\ "\r" \in Characters
    BY DEF Characters
  <2> QED
    BY <1>3, <2>1 DEF Escape
<1>5. s.value \in Seq(Characters)
  BY DEF Strings
<1> DEFINE value == IF s.escaped THEN Append(s.value, Escape(Char(s.cursor)))
                    ELSE IF Char(s.cursor) = "\\" THEN s.value
                    ELSE Append(s.value, Char(s.cursor))
           escaped == ~s.escaped /\ Char(s.cursor) = "\\"
<1>6. value \in Seq(Characters)
  <2>1. \A y \in Characters : Append(s.value, y) \in Seq(Characters)
    BY <1>5
  <2> QED
    BY <1>3, <1>4, <1>5, <2>1
<1>7. escaped \in BOOLEAN
  OBVIOUS
<1>8. StepOf(s) = [cursor |-> Advance(s.cursor), escaped |-> escaped, value |-> value]
  BY DEF StepOf
<1> HIDE DEF value, escaped
<1> QED
  BY <1>2, <1>6, <1>7, <1>8 DEF Strings

(* Behind the opening quote.                                               *)
LEMMA OpenFirst ==
  ASSUME text \in Seq(STRING), NEW p \in Positions, text[p] \in Quotes
  PROVE  Open(p, p + 1) /\ ~Escaped(Tailed(p), (p + 1) - p + 1)
<1>1. (p + 1) - p = 1 /\ (p + 1) - p + 1 = 2 /\ (p + 1) - 1 = p
  BY DEF Positions
<1>2. ~Escaped(Tailed(p), (p + 1) - p + 1)
  BY <1>1, EscapedNext
<1>3. ~PairAt((p + 1) - 1)
  <2>1. text[p] # "\r"
    BY FirstsApart
  <2> QED
    BY <1>1, <2>1 DEF PairAt
<1>4. ASSUME NEW i \in 1 .. (p + 1) - p
      PROVE  ~Closes(Tailed(p), i) /\ ~Broken(Tailed(p), i)
  <2>1. ~(i > 1)
    BY <1>1
  <2> QED
    BY <2>1 DEF Closes, Broken
<1> QED
  BY <1>2, <1>3, <1>4 DEF Open

(* The loop runs until the quote, or a break or the end.                   *)
LEMMA StringLoop ==
  ASSUME text \in Seq(STRING), NEW p \in Positions, p <= Len(text), text[p] \in Quotes,
         NEW state, state[0] = StartOf(PlaceAt(p)),
         \A n \in 1..Len(text) : state[n] = StepOf(state[n - 1])
  PROVE  /\ \E n \in 0..Len(text) :
              StopsAt(state[n], text[p]) /\ \A m \in 0 .. n - 1 : ~StopsAt(state[m], text[p])
         /\ \A n \in 0..Len(text) :
              (\A m \in 0 .. n - 1 : ~StopsAt(state[m], text[p])) =>
                \E x \in p + 1 .. Len(text) + 1 :
                  /\ state[n].cursor = PlaceAt(x) /\ Open(p, x)
                  /\ state[n].escaped <=> Escaped(Tailed(p), x - p + 1)
<1>0. Len(text) \in Nat
  OBVIOUS
<1> DEFINE N == Len(text)
           Run(n, x) == /\ state[n].cursor = PlaceAt(x) /\ Open(p, x)
                        /\ state[n].escaped <=> Escaped(Tailed(p), x - p + 1)
           J == {n \in 0..N : \E x \in p + 1 .. N + 1 : Run(n, x)}
           E == {n \in 0..N : StopsAt(state[n], text[p])}
           left == [n \in 0..N |-> N + 1 - state[n].cursor.position]
<1>1. N \in Nat /\ p \in 1..N /\ Positions = 1..N + 1
  BY <1>0 DEF Positions
<1>2. state[0] = StartOf(PlaceAt(p)) /\ \A n \in 1..N : state[n] = StepOf(state[n - 1])
  OBVIOUS
<1>3. Run(0, p + 1) /\ p + 1 \in p + 1 .. N + 1
  <2>1. text[p] # "\r"
    BY FirstsApart
  <2>2. Advance(PlaceAt(p)) = PlaceAt(p + 1)
    BY <2>1, AdvanceOver
  <2>3. state[0].cursor = PlaceAt(p + 1) /\ ~state[0].escaped
    BY <1>2, <2>2 DEF StartOf
  <2>4. Open(p, p + 1) /\ ~Escaped(Tailed(p), (p + 1) - p + 1)
    BY OpenFirst
  <2>6. p + 1 \in p + 1 .. N + 1
    BY <1>1
  <2>7. Run(0, p + 1)
    BY <2>3, <2>4
  <2> QED
    BY <2>6, <2>7
<1>4. 0 \in J
  <2>1. 0 \in 0..N
    BY <1>1
  <2> HIDE DEF Run
  <2> QED
    BY <1>3, <2>1
<1>5. left[0] <= N
  <2>1. left[0] = N + 1 - (p + 1)
    <3>1. 0 \in 0..N
      BY <1>1
    <3> QED
      BY <1>3, <3>1, CharAt
  <2> QED
    BY <1>1, <2>1
<1>6. ASSUME NEW n \in 0..N, NEW x \in p + 1 .. N + 1, Run(n, x), n \notin E
      PROVE  /\ x <= N
             /\ n + 1 \in 0..N => /\ Run(n + 1, After(x)) /\ x < After(x)
                                  /\ After(x) \in p + 1 .. N + 1
  <2>1. ~StopsAt(state[n], text[p])
    BY <1>6
  <2>2. state[n].cursor = PlaceAt(x) /\ Open(p, x)
        /\ (state[n].escaped <=> Escaped(Tailed(p), x - p + 1))
    BY <1>6
  <2>3. ~AtEnd(PlaceAt(x)) /\ (Escaped(Tailed(p), x - p + 1)
                               \/ Char(PlaceAt(x)) \notin Breaks \cup {text[p]})
    BY <2>1, <2>2 DEF StopsAt
  <2>4. ~(x > Len(text))
    BY <2>3, CharAt
  <2>5. x <= N /\ x \in p + 1 .. Len(text) /\ x \in Positions /\ Char(PlaceAt(x)) = text[x]
    <3>1. x <= N /\ x \in p + 1 .. Len(text) /\ x \in Positions
      BY <1>1, <2>4
    <3> QED
      BY <2>4, <3>1, CharAt
  <2>6. /\ Open(p, After(x))
        /\ Escaped(Tailed(p), After(x) - p + 1)
             <=> ~Escaped(Tailed(p), x - p + 1) /\ text[x] = "\\"
    <3>1. Escaped(Tailed(p), x - p + 1) \/ text[x] \notin Breaks \cup {text[p]}
      BY <2>3, <2>5
    <3> QED
      BY <2>2, <2>5, <3>1, OpenNext
  <2>7. Advance(PlaceAt(x)) = PlaceAt(After(x)) /\ After(x) \in Positions /\ x < After(x)
    BY <2>5, AdvanceAt
  <2>8. After(x) \in p + 1 .. N + 1
    BY <1>1, <2>7
  <2>9. ASSUME n + 1 \in 0..N PROVE Run(n + 1, After(x))
    <3>1. state[n + 1] = StepOf(state[n])
      <4>1. n + 1 \in 1..N /\ (n + 1) - 1 = n
        BY <1>1, <2>9
      <4> QED
        BY <1>2, <4>1
    <3>2. state[n + 1].cursor = PlaceAt(After(x))
      BY <2>2, <2>7, <3>1 DEF StepOf
    <3>3. state[n + 1].escaped <=> ~state[n].escaped /\ text[x] = "\\"
      <4>1. Char(state[n].cursor) = text[x]
        BY <2>2, <2>5
      <4>2. StepOf(state[n]).escaped = (~state[n].escaped /\ Char(state[n].cursor) = "\\")
        BY DEF StepOf
      <4> HIDE DEF Run
      <4> QED
        BY <3>1, <4>1, <4>2
    <3> QED
      BY <2>2, <2>6, <3>2, <3>3
  <2> HIDE DEF Run
  <2> QED
    BY <2>5, <2>7, <2>8, <2>9
<1> HIDE DEF N
<1>7. ASSUME NEW n \in (0..N) \cap J
      PROVE  /\ left[n] \in Nat
             /\ n \notin E => left[n] > 0
             /\ n \in 0..N - 1 /\ n \notin E => n + 1 \in J /\ left[n + 1] < left[n]
  <2>1. PICK x \in p + 1 .. N + 1 : Run(n, x)
    <3> HIDE DEF Run
    <3> QED
      OBVIOUS
  <2>2. left[n] = N + 1 - x /\ x \in Nat /\ x <= N + 1
    BY <1>1, <2>1, CharAt
  <2>3. left[n] \in Nat
    BY <1>1, <2>2
  <2>4. CASE n \in E
    BY <2>3, <2>4
  <2>5. CASE n \notin E
    <3>1. x <= N /\ (n + 1 \in 0..N => /\ Run(n + 1, After(x)) /\ x < After(x)
                                       /\ After(x) \in p + 1 .. N + 1)
      <4> HIDE DEF Run, E
      <4> QED
        BY <1>6, <2>1, <2>5
    <3>2. left[n] > 0
      <4> HIDE DEF left, Run, J, E
      <4> QED
        BY <1>1, <2>2, <3>1
    <3>3. ASSUME n \in 0..N - 1 PROVE n + 1 \in J /\ left[n + 1] < left[n]
      <4>1. n + 1 \in 0..N
        BY <1>1, <3>3
      <4>2. Run(n + 1, After(x)) /\ x < After(x) /\ After(x) \in p + 1 .. N + 1
        BY <3>1, <4>1
      <4>3. left[n + 1] = N + 1 - After(x)
        BY <4>1, <4>2, CharAt
      <4>4. left[n + 1] < left[n]
        BY <1>1, <2>2, <4>2, <4>3
      <4> HIDE DEF Run
      <4> QED
        BY <4>1, <4>2, <4>4
    <3> HIDE DEF J, left
    <3> QED
      BY <2>3, <3>2, <3>3
  <2> QED
    BY <2>4, <2>5
<1>8. /\ \E n \in 0..N : n \in E /\ \A m \in 0..n - 1 : m \notin E
      /\ \A n \in 0..N : (\A m \in 0..n - 1 : m \notin E) => n \in J
  <2>1. \A n \in (0..N - 1) \cap J : n \in (0..N) \cap J
    BY <1>1
  <2> HIDE DEF J, E, left
  <2> QED
    BY <1>1, <1>4, <1>5, <1>7, <2>1, LoopEnds
<1>9. \A n \in 0..N : (\A m \in 0..n - 1 : m \notin E)
                        <=> \A m \in 0 .. n - 1 : ~StopsAt(state[m], text[p])
  <2>1. \A n \in 0..N : \A m \in 0 .. n - 1 : m \in 0..N
    BY <1>1
  <2>2. \A m \in 0..N : m \in E <=> StopsAt(state[m], text[p])
    OBVIOUS
  <2> HIDE DEF E
  <2> QED
    BY <2>1, <2>2
<1>10. \A n \in 0..N : n \in E => StopsAt(state[n], text[p])
  OBVIOUS
<1>11. \A n \in 0..N : n \in J => \E x \in p + 1 .. N + 1 : Run(n, x)
  <2> HIDE DEF Run
  <2> QED
    OBVIOUS
<1>12. \E n \in 0..N :
         StopsAt(state[n], text[p]) /\ \A m \in 0 .. n - 1 : ~StopsAt(state[m], text[p])
  <2> HIDE DEF E, J
  <2> QED
    BY <1>8, <1>9, <1>10
<1>13. \A n \in 0..N : (\A m \in 0 .. n - 1 : ~StopsAt(state[m], text[p])) =>
                         \E x \in p + 1 .. N + 1 : Run(n, x)
  <2> HIDE DEF E, J, Run
  <2> QED
    BY <1>8, <1>9, <1>11
<1> QED
  BY <1>12, <1>13 DEF N

(* What read_string has before it looks at what ended its loop.            *)
StringRun(p, s) ==
  \E x \in p + 1 .. Len(text) + 1 :
    /\ s.cursor = PlaceAt(x) /\ Open(p, x) /\ StopsAt(s, text[p])
    /\ s.escaped <=> Escaped(Tailed(p), x - p + 1)

(* The loop in read_string ends, and what it stopped at is the result.     *)
LEMMA StringEnds ==
  ASSUME text \in Seq(STRING), NEW p \in Positions, p <= Len(text), text[p] \in Quotes
  PROVE  \E s :
           /\ StringRun(p, s)
           /\ ReadString(PlaceAt(p)) =
                IF Char(s.cursor) = text[p]
                THEN [token |-> Token("string", s.value, PlaceAt(p), Advance(s.cursor)),
                      cursor |-> Advance(s.cursor)]
                ELSE [token |-> Token("error", <<>>, PlaceAt(p), s.cursor),
                      cursor |-> s.cursor]
<1>0. Len(text) \in Nat
  OBVIOUS
<1> DEFINE N == Len(text)
           c == PlaceAt(p)
           quote == Char(c)
           Body(h) == [n \in 0..N |-> IF n = 0 THEN StartOf(c) ELSE StepOf(h[n - 1])]
           state == CHOOSE h : h = Body(h)
           done == CHOOSE n \in 0..N :
                     StopsAt(state[n], quote) /\ \A m \in 0 .. n - 1 : ~StopsAt(state[m], quote)
           last == state[done]
<1>1. ReadString(c) =
        IF Char(last.cursor) = quote
        THEN [token |-> Token("string", last.value, c, Advance(last.cursor)),
              cursor |-> Advance(last.cursor)]
        ELSE [token |-> Token("error", <<>>, c, last.cursor), cursor |-> last.cursor]
  BY DEF ReadString, StopsAt, StepOf, StartOf
<1>2. quote = text[p]
  <2>1. ~(p > Len(text))
    BY <1>0 DEF Positions
  <2> QED
    BY <2>1, CharAt
<1>3. state = Body(state)
  <2> DEFINE step == [s \in Strings |-> StepOf(s)]
             start == StartOf(c)
  <2>1. start \in Strings
    <3>1. Advance(c) \in Places
      <4>1. Advance(c) = PlaceAt(After(p)) /\ After(p) \in Positions
        BY AdvanceAt
      <4> QED
        BY <4>1 DEF Places
    <3>2. <<>> \in Seq(Characters)
      OBVIOUS
    <3> HIDE DEF c
    <3> QED
      BY <3>1, <3>2 DEF StartOf, Strings
  <2>2. step \in [Strings -> Strings]
    BY StepTyped
  <2> HIDE DEF step, start, N
  <2>3. N \in Nat
    BY <1>0 DEF N
  <2>4. PICK f \in [0..N -> Strings] : Iterates(f, start, step, N)
    BY <2>1, <2>2, <2>3, Iterated
  <2>5. \A n \in 0..N : n # 0 => n \in 1..N /\ n - 1 \in 0..N
    BY <2>3
  <2>6. \A n \in 0..N : f[n] = IF n = 0 THEN start ELSE StepOf(f[n - 1])
    <3>1. f[0] = start /\ \A n \in 1..N : f[n] = step[f[n - 1]]
      BY <2>4 DEF Iterates
    <3>2. \A n \in 0..N : f[n] \in Strings
      OBVIOUS
    <3>3. \A s \in Strings : step[s] = StepOf(s)
      BY DEF step
    <3> QED
      BY <2>5, <3>1, <3>2, <3>3
  <2>7. f = Body(f)
    <3> HIDE DEF c
    <3> QED
      BY <2>6 DEF start
  <2> HIDE DEF Body
  <2> QED
    BY <2>7
<1> HIDE DEF state
<1>4. state[0] = StartOf(c) /\ \A n \in 1..N : state[n] = StepOf(state[n - 1])
  <2> HIDE DEF c
  <2>1. \A n \in 0..N : state[n] = IF n = 0 THEN StartOf(c) ELSE StepOf(state[n - 1])
    BY <1>3
  <2>2. 0 \in 0..N /\ \A n \in 1..N : n \in 0..N /\ n # 0
    BY <1>0
  <2> QED
    BY <2>1, <2>2
<1>5. /\ \E n \in 0..N :
           StopsAt(state[n], text[p]) /\ \A m \in 0 .. n - 1 : ~StopsAt(state[m], text[p])
      /\ \A n \in 0..N :
           (\A m \in 0 .. n - 1 : ~StopsAt(state[m], text[p])) =>
             \E x \in p + 1 .. N + 1 :
               /\ state[n].cursor = PlaceAt(x) /\ Open(p, x)
               /\ state[n].escaped <=> Escaped(Tailed(p), x - p + 1)
  BY <1>4, StringLoop
<1> HIDE DEF quote, N
<1>6. done \in 0..N /\ StopsAt(state[done], text[p])
      /\ \A m \in 0 .. done - 1 : ~StopsAt(state[m], text[p])
  BY <1>2, <1>5
<1> HIDE DEF done
<1>7. StringRun(p, last)
  BY <1>5, <1>6 DEF StringRun, N
<1> HIDE DEF last
<1> QED
  BY <1>1, <1>2, <1>7 DEF c

(* Strings, and quotes that none closes.                                   *)
LEMMA ReadStringRight ==
  ASSUME text \in Seq(STRING), NEW p \in Positions, p <= Len(text), text[p] \in Quotes
  PROVE  ReadsRight(ReadString(PlaceAt(p)), p)
<1>1. Len(text) \in Nat /\ p \in Nat \ {0} /\ Positions = 1 .. Len(text) + 1
  BY DEF Positions
<1>2. PICK s :
        /\ StringRun(p, s)
        /\ ReadString(PlaceAt(p)) =
             IF Char(s.cursor) = text[p]
             THEN [token |-> Token("string", s.value, PlaceAt(p), Advance(s.cursor)),
                   cursor |-> Advance(s.cursor)]
             ELSE [token |-> Token("error", <<>>, PlaceAt(p), s.cursor),
                   cursor |-> s.cursor]
  BY StringEnds
<1>3. PICK x \in p + 1 .. Len(text) + 1 :
        /\ s.cursor = PlaceAt(x) /\ Open(p, x) /\ StopsAt(s, text[p])
        /\ s.escaped <=> Escaped(Tailed(p), x - p + 1)
  BY <1>2 DEF StringRun
<1>4. x \in Positions /\ x \in Nat /\ p < x /\ x <= Len(text) + 1 /\ p <= x
  BY <1>1
<1>5. text[p] # "\r" /\ text[p] \notin Breaks /\ None # text[p]
  BY FirstsApart, NoneIsNoClass
<1>6. \A i \in 1 .. x - p : ~Closes(Tailed(p), i) /\ ~Broken(Tailed(p), i)
  BY <1>3 DEF Open
<1>7. Tailed(p)[1] = text[p]
  <2>1. p \in p .. Len(text) /\ p - p + 1 = 1
    BY <1>1
  <2>2. Tailed(p)[p - p + 1] = text[p]
    BY <2>1, TailedAt
  <2> QED
    BY <2>1, <2>2
<1>8. ASSUME NEW q \in p - 1 .. Len(text)
      PROVE  IsLexeme(Rest(p, q)) => q \in p .. Len(text) /\ IsString(Rest(p, q))
  <2>1. IsLexeme(Rest(p, q)) => IsString(Rest(p, q))
    BY FirstsApart, Beginnings DEF IsLexeme
  <2>2. IsString(Rest(p, q)) => p <= q
    BY Beginnings
  <2> QED
    BY <1>1, <2>1, <2>2
<1>9. CASE Char(s.cursor) = text[p]
  <2>1. x <= Len(text) /\ text[x] = text[p] /\ x \in p .. Len(text)
    <3>1. ~(x > Len(text)) /\ text[x] = text[p]
      BY <1>3, <1>5, <1>9, CharAt
    <3> QED
      BY <1>1, <1>4, <3>1
  <2>2. ~AtEnd(s.cursor)
    BY <1>1, <1>3, <1>4, <2>1, CharAt
  <2>3. ~Escaped(Tailed(p), x - p + 1)
    BY <1>3, <2>2 DEF StopsAt
  <2>4. Closes(Tailed(p), x - p + 1)
    <3>1. Tailed(p)[x - p + 1] = text[x]
      BY <2>1, TailedAt
    <3>2. x - p + 1 > 1
      BY <1>1, <1>4
    <3> QED
      BY <1>7, <2>1, <2>3, <3>1, <3>2 DEF Closes
  <2>5. Advance(s.cursor) = PlaceAt(x + 1) /\ x + 1 \in Positions
    BY <1>3, <1>4, <1>5, <2>1, AdvanceOver
  <2> DEFINE t == Token("string", s.value, PlaceAt(p), PlaceAt(x + 1))
  <2>6. ReadString(PlaceAt(p)) = [token |-> t, cursor |-> PlaceAt(x + 1)]
    BY <1>2, <1>9, <2>5
  <2>7. /\ t.kind = "string" /\ t.from = p /\ t.to = x + 1
        /\ t.line = LineOf(p) /\ t.column = ColumnOf(p)
    BY TokenFacts
  <2> HIDE DEF t
  <2>8. IsString(Rest(p, (x + 1) - 1))
    <3>1. (x + 1) - 1 = x
      BY <1>1
    <3>2. IsString(Rest(p, x))
      BY <1>6, <2>1, <2>4, StringPlaces
    <3> QED
      BY <3>1, <3>2
  <2>9. OfKind(t)
    BY <2>7, <2>8 DEF OfKind
  <2>10. ASSUME NEW q \in x + 1 .. Len(text) PROVE ~IsLexeme(Rest(p, q))
    <3>1. q \in p - 1 .. Len(text) /\ q \in p .. Len(text) /\ x - p + 1 \in 1 .. q - p
      BY <1>1, <1>4
    <3>2. ~IsString(Rest(p, q))
      BY <2>4, <3>1, StringPlaces
    <3> QED
      BY <1>8, <3>1, <3>2
  <2>11. Longest(t)
    BY <2>7, <2>10 DEF Longest
  <2>12. p <= x + 1
    BY <1>1, <1>4
  <2> QED
    BY <2>5, <2>6, <2>7, <2>9, <2>11, <2>12 DEF ReadsRight
<1>10. CASE Char(s.cursor) # text[p]
  <2> DEFINE t == Token("error", <<>>, PlaceAt(p), PlaceAt(x))
  <2>1. ReadString(PlaceAt(p)) = [token |-> t, cursor |-> PlaceAt(x)]
    BY <1>2, <1>3, <1>10
  <2>2. /\ t.kind = "error" /\ t.from = p /\ t.to = x
        /\ t.line = LineOf(p) /\ t.column = ColumnOf(p)
    BY TokenFacts
  <2> HIDE DEF t
  <2>3. ASSUME NEW q \in p .. Len(text) PROVE ~IsString(Rest(p, q))
    <3> SUFFICES ASSUME IsString(Rest(p, q)) PROVE FALSE
      OBVIOUS
    <3>1. /\ Closes(Tailed(p), q - p + 1)
          /\ \A i \in 1 .. q - p : ~Closes(Tailed(p), i) /\ ~Broken(Tailed(p), i)
      BY StringPlaces
    <3>2. ~(q - p + 1 \in 1 .. x - p)
      BY <1>6, <3>1
    <3>3. x <= q
      BY <1>1, <1>4, <3>2
    <3>4. x <= Len(text) /\ x \in p .. Len(text) /\ ~(x > Len(text))
      BY <1>1, <1>4, <3>3
    <3>5. ~AtEnd(s.cursor) /\ Char(s.cursor) = text[x]
      BY <1>3, <3>4, CharAt
    <3>6. ~Escaped(Tailed(p), x - p + 1) /\ text[x] \in Breaks
      BY <1>3, <1>10, <3>5 DEF StopsAt
    <3>7. Tailed(p)[x - p + 1] = text[x]
      BY <3>4, TailedAt
    <3>8. CASE q = x
      BY <1>5, <1>7, <3>1, <3>6, <3>7, <3>8 DEF Closes
    <3>9. CASE q # x
      <4>1. x - p + 1 \in 1 .. q - p /\ x - p + 1 > 1
        BY <1>1, <1>4, <3>3, <3>9
      <4>2. ~Broken(Tailed(p), x - p + 1)
        BY <3>1, <4>1
      <4>3. text[x] = "\n" /\ Tailed(p)[(x - p + 1) - 1] = "\r"
        BY <3>6, <3>7, <4>1, <4>2 DEF Broken
      <4>4. x - 1 \in p .. Len(text) /\ (x - 1) - p + 1 = (x - p + 1) - 1
            /\ (x - 1) + 1 = x /\ x - 1 < Len(text)
        BY <1>1, <1>4, <3>4
      <4>5. Tailed(p)[(x - 1) - p + 1] = text[x - 1]
        BY <4>4, TailedAt
      <4>6. text[x - 1] = "\r"
        BY <4>3, <4>4, <4>5
      <4>7. PairAt(x - 1)
        BY <4>3, <4>4, <4>6 DEF PairAt
      <4> QED
        BY <1>3, <4>7 DEF Open
    <3> QED
      BY <3>8, <3>9
  <2>4. ASSUME NEW q \in p .. Len(text) PROVE ~IsLexeme(Rest(p, q))
    <3>1. q \in p - 1 .. Len(text)
      BY <1>1
    <3> QED
      BY <1>8, <2>3, <3>1
  <2>5. Rest(p, x - 1) # <<>>
    <3>1. x - 1 \in p - 1 .. Len(text) /\ x - 1 # p - 1
      BY <1>1, <1>4
    <3> QED
      BY <3>1, RestFacts
  <2>6. OfKind(t)
    BY <2>2, <2>4, <2>5 DEF OfKind
  <2>7. Longest(t)
    <3>1. \A q \in x .. Len(text) : q \in p .. Len(text)
      BY <1>1, <1>4
    <3> QED
      BY <2>2, <2>4, <3>1 DEF Longest
  <2> QED
    BY <1>4, <2>1, <2>2, <2>6, <2>7 DEF ReadsRight
<1> QED
  BY <1>9, <1>10

(* Behind the spaces, whatever is there is read right.                     *)
LEMMA NextInternalRight ==
  ASSUME text \in Seq(STRING), NEW p \in Positions
  PROVE  \E q \in Positions :
           p <= q /\ OnlySpaces(p, q) /\ ReadsRight(NextInternal(PlaceAt(p)), q)
<1>1. PICK q \in Positions :
        /\ While(PlaceAt(p), Spaces) = PlaceAt(q)
        /\ p <= q /\ \A i \in p .. q - 1 : text[i] \in Spaces
        /\ q <= Len(text) => text[q] \notin Spaces
  BY NoneIsNoClass, BreaksTogether, WhileAt
<1>2. OnlySpaces(p, q)
  BY <1>1 DEF OnlySpaces
<1>3. Len(text) \in Nat /\ q \in Nat \ {0} /\ q <= Len(text) + 1
  BY DEF Positions
<1> DEFINE c == PlaceAt(q)
<1>4. NextInternal(PlaceAt(p)) =
        IF AtEnd(c) THEN [token |-> Token("eof", <<>>, c, c), cursor |-> c]
        ELSE IF Char(c) \in Opens THEN ReadWord(c)
        ELSE IF Char(c) \in Digits THEN ReadNumber(c)
        ELSE IF Char(c) \in Quotes THEN ReadString(c)
        ELSE ReadOperator(c)
  BY <1>1 DEF NextInternal, Opens
<1>5. AtEnd(c) <=> q > Len(text)
  BY CharAt
<1>6. q <= Len(text) => Char(c) = text[q]
  BY <1>3, CharAt
<1> HIDE DEF c
<1>7. ReadsRight(NextInternal(PlaceAt(p)), q)
  <2>1. CASE q > Len(text)
    <3> DEFINE t == Token("eof", <<>>, PlaceAt(q), PlaceAt(q))
    <3>1. NextInternal(PlaceAt(p)) = [token |-> t, cursor |-> PlaceAt(q)]
      BY <1>4, <1>5, <2>1 DEF c
    <3>2. /\ t.kind = "eof" /\ t.from = q /\ t.to = q
          /\ t.line = LineOf(q) /\ t.column = ColumnOf(q)
      BY TokenFacts
    <3> HIDE DEF t
    <3>3. q = Len(text) + 1
      BY <1>3, <2>1
    <3>4. OfKind(t)
      BY <3>2, <3>3 DEF OfKind
    <3>5. Longest(t)
      <4>1. q .. Len(text) = {}
        BY <1>3, <3>3
      <4> QED
        BY <3>2, <4>1 DEF Longest
    <3>6. q <= q
      BY <1>3
    <3> QED
      BY <3>1, <3>2, <3>4, <3>5, <3>6 DEF ReadsRight
  <2>2. CASE ~(q > Len(text))
    <3>1. q <= Len(text) /\ ~AtEnd(c) /\ Char(c) = text[q]
      BY <1>3, <1>5, <1>6, <2>2
    <3>2. CASE text[q] \in Opens
      BY <1>4, <3>1, <3>2, ReadWordRight DEF c
    <3>3. CASE text[q] \notin Opens /\ text[q] \in Digits
      BY <1>4, <3>1, <3>3, ReadNumberRight DEF c
    <3>4. CASE text[q] \notin Opens /\ text[q] \notin Digits /\ text[q] \in Quotes
      BY <1>4, <3>1, <3>4, ReadStringRight DEF c
    <3>5. CASE text[q] \notin Opens /\ text[q] \notin Digits /\ text[q] \notin Quotes
      <4>1. text[q] # "\r"
        BY <1>1, <3>1 DEF Spaces
      <4>2. NextInternal(PlaceAt(p)) = ReadOperator(PlaceAt(q))
        BY <1>4, <3>1, <3>5 DEF c
      <4> QED
        BY <3>1, <3>5, <4>1, <4>2, ReadOperatorRight
    <3> QED
      BY <3>2, <3>3, <3>4, <3>5
  <2> QED
    BY <2>1, <2>2
<1> QED
  BY <1>1, <1>2, <1>7

-----------------------------------------------------------------------------
(* Lists, whatever they hold.                                              *)
IsList(s) == s \in Seq({s[i] : i \in DOMAIN s})

(* What Append and Len do to a list of anything.                           *)
LEMMA ListGrows ==
  ASSUME NEW s, IsList(s), NEW t
  PROVE  /\ IsList(Append(s, t)) /\ Len(s) \in Nat /\ DOMAIN s = 1..Len(s)
         /\ Len(Append(s, t)) = Len(s) + 1 /\ DOMAIN Append(s, t) = 1..Len(s) + 1
         /\ Append(s, t)[Len(s) + 1] = t
         /\ \A i \in 1..Len(s) : Append(s, t)[i] = s[i]
         /\ s \o <<>> = s /\ s \o <<t>> = Append(s, t)
         /\ s = <<>> <=> Len(s) = 0
<1> DEFINE S == {s[i] : i \in DOMAIN s}
           T == S \cup {t}
           u == Append(s, t)
           U == {u[i] : i \in DOMAIN u}
<1>1. s \in Seq(S)
  BY DEF IsList
<1> HIDE DEF S
<1>2. /\ Len(s) \in Nat /\ DOMAIN s = 1..Len(s) /\ \A i \in 1..Len(s) : s[i] \in S
      /\ s = <<>> <=> Len(s) = 0
  BY <1>1
<1>3. s \in Seq(T) /\ t \in T
  <2>1. s = [i \in 1..Len(s) |-> s[i]]
    BY <1>1
  <2>2. \A i \in 1..Len(s) : s[i] \in T
    BY <1>2
  <2>3. s \in [1..Len(s) -> T]
    BY <2>1, <2>2
  <2> QED
    BY <1>2, <2>3
<1> HIDE DEF T
<1>4. /\ u \in Seq(T) /\ Len(u) = Len(s) + 1 /\ u[Len(s) + 1] = t
      /\ \A i \in 1..Len(s) : u[i] = s[i]
  BY <1>2, <1>3
<1>5. s \o <<>> = s
  BY <1>3, ConcatEmptySeq
<1>6. s \o <<t>> = u
  BY <1>3, AppendIsConcat
<1> HIDE DEF u
<1>7. DOMAIN u = 1..Len(s) + 1 /\ Len(u) \in Nat
  BY <1>2, <1>4
<1>8. u \in Seq(U)
  <2>1. u = [i \in 1..Len(u) |-> u[i]]
    BY <1>4
  <2>2. \A i \in 1..Len(u) : u[i] \in U
    BY <1>4, <1>7
  <2>3. u \in [1..Len(u) -> U]
    BY <2>1, <2>2
  <2> HIDE DEF U
  <2> QED
    BY <1>7, <2>3
<1> QED
  BY <1>2, <1>4, <1>5, <1>6, <1>7, <1>8 DEF IsList, u

(* What holds of the tokens that were read, and of where the cursor is.    *)
TokenRight(t) ==
  /\ t.from \in Positions /\ t.to \in Positions /\ t.from <= t.to
  /\ t.line = LineOf(t.from) /\ t.column = ColumnOf(t.from)
  /\ OfKind(t) /\ Longest(t)

Chained(before, t) == before <= t.from /\ OnlySpaces(before, t.from)

BehindOf(read, n) == IF n = 0 THEN 1 ELSE read[n].to

ReadSoFar(read, at) ==
  /\ \A i \in 1..Len(read) : TokenRight(read[i]) /\ Chained(BehindOf(read, i - 1), read[i])
  /\ at = PlaceAt(BehindOf(read, Len(read)))

LexerInv ==
  /\ text \in Seq(STRING)
  /\ IsList(tokens) /\ (peeked = <<>> \/ \E t : peeked = <<t>>)
  /\ IsList(Read) /\ ReadSoFar(Read, cursor)

(* The cursor is at a place of the text.                                   *)
LEMMA BehindIsPosition ==
  ASSUME text \in Seq(STRING), NEW read, Len(read) \in Nat, NEW at, ReadSoFar(read, at)
  PROVE  BehindOf(read, Len(read)) \in Positions
<1>1. CASE Len(read) = 0
  BY <1>1 DEF BehindOf, Positions
<1>2. CASE Len(read) # 0
  <2>1. Len(read) \in 1..Len(read)
    BY <1>2
  <2>2. TokenRight(read[Len(read)])
    BY <2>1 DEF ReadSoFar
  <2> QED
    BY <1>2, <2>2 DEF BehindOf, TokenRight
<1> QED
  BY <1>1, <1>2

(* One token more.                                                         *)
LEMMA ReadGrows ==
  ASSUME text \in Seq(STRING), NEW read, IsList(read), NEW at, ReadSoFar(read, at)
  PROVE  LET next == NextInternal(at) IN
         IsList(Append(read, next.token)) /\ ReadSoFar(Append(read, next.token), next.cursor)
<1> DEFINE next == NextInternal(at)
           n == Len(read)
           longer == Append(read, next.token)
           p == BehindOf(read, n)
<1>1. /\ IsList(longer) /\ n \in Nat /\ Len(longer) = n + 1 /\ longer[n + 1] = next.token
      /\ \A i \in 1..n : longer[i] = read[i]
  BY ListGrows
<1>2. p \in Positions /\ at = PlaceAt(p)
  BY <1>1, BehindIsPosition DEF ReadSoFar
<1>3. PICK q \in Positions : p <= q /\ OnlySpaces(p, q) /\ ReadsRight(next, q)
  BY <1>2, NextInternalRight
<1> HIDE DEF next, longer, n
<1>4. PICK r \in Positions :
        /\ q <= r /\ next.cursor = PlaceAt(r)
        /\ next.token.from = q /\ next.token.to = r
        /\ next.token.line = LineOf(q) /\ next.token.column = ColumnOf(q)
        /\ OfKind(next.token) /\ Longest(next.token)
  BY <1>3 DEF ReadsRight
<1>5. TokenRight(next.token) /\ Chained(p, next.token)
  BY <1>3, <1>4 DEF TokenRight, Chained
<1>6. \A i \in 0..n : BehindOf(longer, i) = BehindOf(read, i)
  BY <1>1 DEF BehindOf
<1>7. ASSUME NEW i \in 1..n + 1
      PROVE  TokenRight(longer[i]) /\ Chained(BehindOf(longer, i - 1), longer[i])
  <2>1. i - 1 \in 0..n
    BY <1>1
  <2>2. CASE i = n + 1
    <3>1. i - 1 = n
      BY <1>1, <2>2
    <3> QED
      BY <1>1, <1>5, <1>6, <2>1, <2>2, <3>1
  <2>3. CASE i # n + 1
    <3>1. i \in 1..n
      BY <1>1, <2>3
    <3>2. TokenRight(read[i]) /\ Chained(BehindOf(read, i - 1), read[i])
      BY <3>1 DEF ReadSoFar, n
    <3> QED
      BY <1>1, <1>6, <2>1, <3>1, <3>2
  <2> QED
    BY <2>2, <2>3
<1>8. next.cursor = PlaceAt(BehindOf(longer, n + 1))
  <2>1. BehindOf(longer, n + 1) = r
    BY <1>1, <1>4 DEF BehindOf
  <2> QED
    BY <1>4, <2>1
<1>9. ReadSoFar(longer, next.cursor)
  BY <1>1, <1>7, <1>8 DEF ReadSoFar
<1> QED
  BY <1>1, <1>9 DEF next, longer

(* Nothing is read at first.                                               *)
LEMMA LexerInitHolds == LexerInit => LexerInv
<1> SUFFICES ASSUME LexerInit PROVE LexerInv
  OBVIOUS
<1>1. text \in Seq(STRING) /\ tokens = <<>> /\ peeked = <<>>
      /\ cursor = [position |-> 1, line |-> 1, column |-> 1]
  BY LexerAssumption DEF LexerInit
<1>2. IsList(<<>>) /\ Len(<<>>) = 0
  BY DEF IsList
<1>3. Read = <<>>
  <2>1. Read = <<>> \o <<>>
    BY <1>1 DEF Read
  <2> QED
    BY <1>2, <2>1, ListGrows
<1>4. PlaceAt(1) = [position |-> 1, line |-> 1, column |-> 1]
  <2>1. EndsBefore(1) = {}
    BY DEF EndsBefore
  <2>2. Cardinality({}) = 0
    BY FS_EmptySet
  <2>3. LineOf(1) = 1
    <3>1. LineOf(1) = Cardinality({}) + 1
      BY <2>1 DEF LineOf
    <3> QED
      BY <2>2, <3>1
  <2>4. ColumnOf(1) = 1
    BY <2>1 DEF ColumnOf
  <2> QED
    BY <2>3, <2>4 DEF PlaceAt
<1>5. ReadSoFar(<<>>, cursor)
  BY <1>1, <1>2, <1>4 DEF ReadSoFar, BehindOf
<1> QED
  BY <1>1, <1>2, <1>3, <1>5 DEF LexerInv

(* The text does not change, nor does what is said of it.                  *)
LEMMA SameText ==
  ASSUME text' = text
  PROVE  \A read : \A at : ReadSoFar(read, at)' <=> ReadSoFar(read, at)
<1>1. ASSUME NEW p PROVE LineOf(p)' = LineOf(p)
  BY DEF LineOf, EndsBefore, Ends
<1>2. ASSUME NEW p PROVE ColumnOf(p)' = ColumnOf(p)
  BY DEF ColumnOf, EndsBefore, Ends
<1>3. ASSUME NEW p PROVE PlaceAt(p)' = PlaceAt(p)
  BY <1>1, <1>2 DEF PlaceAt
<1>4. ASSUME NEW t PROVE OfKind(t)' <=> OfKind(t)
  BY DEF OfKind, Rest, IsLexeme
<1>5. ASSUME NEW t PROVE Longest(t)' <=> Longest(t)
  BY DEF Longest, Rest
<1>6. ASSUME NEW t PROVE TokenRight(t)' <=> TokenRight(t)
  <2>1. Positions' = Positions
    BY DEF Positions
  <2> QED
    BY <1>1, <1>2, <1>4, <1>5, <2>1 DEF TokenRight
<1>7. ASSUME NEW b, NEW t PROVE Chained(b, t)' <=> Chained(b, t)
  BY DEF Chained, OnlySpaces
<1> QED
  BY <1>3, <1>6, <1>7 DEF ReadSoFar

(* Every call keeps it: each token is read once, and put at the end.       *)
LEMMA LexerNextHolds == LexerInv /\ [LexerNext]_lexer_vars => LexerInv'
<1> SUFFICES ASSUME LexerInv, [LexerNext]_lexer_vars PROVE LexerInv'
  OBVIOUS
<1> DEFINE t == NextInternal(cursor).token
           c == NextInternal(cursor).cursor
<1>1. /\ text \in Seq(STRING) /\ IsList(tokens) /\ (peeked = <<>> \/ \E u : peeked = <<u>>)
      /\ IsList(Read) /\ ReadSoFar(Read, cursor)
  BY DEF LexerInv
<1>2. IsList(Append(Read, t)) /\ ReadSoFar(Append(Read, t), c)
  BY <1>1, ReadGrows
<1> HIDE DEF t, c
<1>3. tokens \o <<>> = tokens /\ tokens \o <<t>> = Append(tokens, t)
      /\ IsList(Append(tokens, t))
  BY <1>1, ListGrows
<1>4. CASE UNCHANGED lexer_vars
  <2>1. /\ text' = text /\ tokens' = tokens /\ peeked' = peeked /\ cursor' = cursor
        /\ Read' = Read
    BY <1>4 DEF lexer_vars, Read
  <2> QED
    BY <1>1, <2>1, SameText DEF LexerInv
<1>5. CASE Peek
  <2>1. text' = text /\ tokens' = tokens /\ peeked = <<>> /\ peeked' = <<t>> /\ cursor' = c
    BY <1>5 DEF Peek, t, c
  <2>2. Read = tokens /\ Read' = Append(Read, t)
    BY <1>3, <2>1 DEF Read
  <2> QED
    BY <1>1, <1>2, <2>1, <2>2, SameText DEF LexerInv
<1>6. CASE NextToken
  <2>1. CASE peeked # <<>>
    <3>1. /\ text' = text /\ tokens' = tokens \o peeked /\ peeked' = <<>> /\ cursor' = cursor
      BY <1>6, <2>1 DEF NextToken
    <3>2. Read' = Read
      <4>1. Read' = Read \o <<>>
        BY <3>1 DEF Read
      <4> QED
        BY <1>1, <4>1, ListGrows
    <3>3. IsList(tokens')
      BY <1>1, <3>1 DEF Read
    <3> QED
      BY <1>1, <3>1, <3>2, <3>3, SameText DEF LexerInv
  <2>2. CASE peeked = <<>>
    <3>1. text' = text /\ tokens' = Append(tokens, t) /\ peeked' = <<>> /\ cursor' = c
      BY <1>6, <2>2 DEF NextToken, t, c
    <3>2. Read = tokens /\ Read' = Append(tokens, t)
      <4>1. Read' = Append(tokens, t) \o <<>>
        BY <3>1 DEF Read
      <4>2. Append(tokens, t) \o <<>> = Append(tokens, t)
        BY <1>3, ListGrows
      <4> QED
        BY <1>3, <2>2, <4>1, <4>2 DEF Read
    <3> QED
      BY <1>1, <1>2, <1>3, <3>1, <3>2, SameText DEF LexerInv
  <2> QED
    BY <2>1, <2>2
<1> QED
  BY <1>4, <1>5, <1>6 DEF LexerNext

(* What it says of the text and the tokens.                                *)
LEMMA LexerInvImplies == LexerInv => PositionsTrue /\ LongestLexemes
<1> SUFFICES ASSUME LexerInv PROVE PositionsTrue /\ LongestLexemes
  OBVIOUS
<1>1. text \in Seq(STRING) /\ IsList(Read) /\ ReadSoFar(Read, cursor)
  BY DEF LexerInv
<1> DEFINE read == Read
           n == Len(read)
<1>2. n \in Nat /\ DOMAIN read = 1..n /\ (read = <<>> <=> n = 0)
  BY <1>1, ListGrows
<1>3. /\ \A i \in 1..n : TokenRight(read[i]) /\ Chained(BehindOf(read, i - 1), read[i])
      /\ cursor = PlaceAt(BehindOf(read, n))
  BY <1>1 DEF ReadSoFar
<1> HIDE DEF read
<1>4. PositionsTrue
  <2>1. cursor.line = LineOf(cursor.position) /\ cursor.column = ColumnOf(cursor.position)
    BY <1>3 DEF PlaceAt
  <2>2. \A i \in 1..n : read[i].line = LineOf(read[i].from)
                        /\ read[i].column = ColumnOf(read[i].from)
    BY <1>3 DEF TokenRight
  <2> QED
    BY <1>2, <2>1, <2>2 DEF PositionsTrue, read
<1>5. LongestLexemes
  <2>1. ASSUME NEW i \in 1..n
        PROVE  /\ OfKind(read[i]) /\ Longest(read[i])
               /\ OnlySpaces(IF i = 1 THEN 1 ELSE read[i - 1].to, read[i].from)
               /\ i > 1 => read[i - 1].to <= read[i].from
    <3>1. TokenRight(read[i]) /\ Chained(BehindOf(read, i - 1), read[i])
      BY <1>3
    <3>2. BehindOf(read, i - 1) = IF i = 1 THEN 1 ELSE read[i - 1].to
      BY <1>2 DEF BehindOf
    <3> QED
      BY <1>2, <3>1, <3>2 DEF TokenRight, Chained
  <2>2. read # <<>> => cursor.position = read[n].to
    BY <1>2, <1>3, CharAt DEF BehindOf
  <2> QED
    BY <1>2, <2>1, <2>2 DEF LongestLexemes, read
<1> QED
  BY <1>4, <1>5

(* In every text, whatever calls of next and peek: each token knows where  *)
(* it stands.                                                              *)
THEOREM PositionsAlwaysTrue == LexerSpec => []PositionsTrue
<1>1. LexerInv => PositionsTrue
  BY LexerInvImplies
<1> QED
  BY <1>1, LexerInitHolds, LexerNextHolds, PTL DEF LexerSpec

(* In every text, whatever calls of next and peek: each token is the       *)
(* longest lexeme at its place, and none is left out or read twice.        *)
THEOREM LexemesAlwaysLongest == LexerSpec => []LongestLexemes
<1>1. LexerInv => LongestLexemes
  BY LexerInvImplies
<1> QED
  BY <1>1, LexerInitHolds, LexerNextHolds, PTL DEF LexerSpec
=============================================================================
