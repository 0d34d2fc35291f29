----------------------------- MODULE Comparisons -----------------------------
(***************************************************************************)
(* How the evaluator compares two field values of any types                *)
(* (src/src/evaluator/evaluator.cpp: compare_values_equal, compare_values  *)
(* and field_value_to_bool).  Equality and order are computed apart: two   *)
(* numbers of different types are equal as doubles, but two integers are   *)
(* ordered as 64-bit integers.                                             *)
(*                                                                         *)
(* A value is its type and a number: of a string or a vector, its rank     *)
(* among the values of its type, where 0 is the empty one; of a boolean, 0 *)
(* or 1.  Numbers are counted in halves, so that there are fractions.      *)
(* Decimal, which the code mentions, is not a type of FieldValue any more. *)
(* NaN, which no literal gives, is left out.                               *)
(***************************************************************************)
EXTENDS Integers

CONSTANTS
  Number,       \* the numbers of each type: a function from types to sets
  Double,       \* the double that a number is converted to
  Exact         \* numbers from -Exact to Exact are doubles

Integral == {"int8", "int16", "int32", "int64", "bool"}
Floating == {"float", "double"}
Arithmetic == Integral \cup Floating
Types == Arithmetic \cup {"string", "vector", "null"}

Whole == 2   \* 1, counted in halves

Numbers == UNION {Number[t] : t \in Types}

(* Conversion to double keeps the order, though not strictly, and what a   *)
(* double holds; the types that are narrower than 64 bits lie within what  *)
(* doubles hold exactly.                                                   *)
ASSUME ComparisonsAssumption ==
  /\ Number \in [Types -> SUBSET Int] /\ Number["null"] = {0}
  /\ Exact \in Nat /\ {-Exact, Exact} \subseteq Numbers
  /\ Double \in [Numbers -> Int]
  /\ \A m, n \in Numbers : m <= n => Double[m] <= Double[n]
  /\ \A n \in Numbers : -Exact <= n /\ n <= Exact => Double[n] = n
  /\ \A t \in Floating : \A n \in Number[t] : Double[n] = n
  /\ \A t \in Integral \ {"int64"} : \A n \in Number[t] : -Exact < n /\ n < Exact

Values == UNION {{[type |-> t, n |-> n] : n \in Number[t]} : t \in Types}

BothOf(a, b, types) == a.type \in types /\ b.type \in types

-----------------------------------------------------------------------------
(* Bug: numbers of different types are equal when their whole parts are.   *)
EqualTruncated(a, b) ==
  IF a.type = b.type THEN a.n = b.n
  ELSE BothOf(a, b, Arithmetic) /\ Double[a.n] \div Whole = Double[b.n] \div Whole

(* compare_values_equal: NULL equals NULL.                                 *)
Equal(a, b) ==
  IF a.type = b.type THEN a.n = b.n
  ELSE BothOf(a, b, Arithmetic) /\ Double[a.n] = Double[b.n]

(* compare_values, where it has no value: NULL and types that do not mix.  *)
Comparable(a, b) ==
  /\ a.type # "null"
  /\ a.type = b.type \/ BothOf(a, b, Arithmetic)

(* The numbers that are compared when it has one.                          *)
Key(a, b) == IF a.type = b.type \/ BothOf(a, b, Integral) THEN a.n ELSE Double[a.n]

Sign(n) == IF n < 0 THEN -1 ELSE IF n > 0 THEN 1 ELSE 0
Compare(a, b) == Sign(Key(a, b) - Key(b, a))

(* field_value_to_bool.                                                    *)
Truth(a) == a.type # "null" /\ a.n # 0

-----------------------------------------------------------------------------
(* What is equal is what is neither less nor greater, although the two are *)
(* computed in different types; both are symmetric.                        *)
OrderAgrees(a, b) ==
  /\ Equal(a, b) = Equal(b, a)
  /\ Comparable(a, b) = Comparable(b, a)
  /\ Comparable(a, b) =>
       /\ Compare(b, a) = -Compare(a, b)
       /\ Equal(a, b) <=> Compare(a, b) = 0

(* Three values are ordered among each other, unless a 64-bit integer that *)
(* no double holds is among numbers that are compared as doubles.          *)
Rounds(a) == a.type = "int64" /\ Double[a.n] # a.n
Orders(a, b, c) ==
  Comparable(a, b) /\ Comparable(b, c) /\ Compare(a, b) <= 0 /\ Compare(b, c) <= 0
    => Comparable(a, c) /\ Compare(a, c) <= 0
OrderChains(a, b, c) ==
  Orders(a, b, c) \/ (\E x, y \in {a, b, c} : Rounds(x) /\ y.type \in Floating)
=============================================================================
