------------------------------ MODULE MCQueries ------------------------------
(***************************************************************************)
(* Statements over three columns, with every kind of expression and every  *)
(* combination of clauses; entities of up to three fields; and numbers of  *)
(* every type, where doubles have four bits, 8-bit integers three and      *)
(* 64-bit integers six.                                                    *)
(***************************************************************************)
EXTENDS Queries

MCExact == 32
MCNumber ==
  [t \in Types |->
     CASE t = "int8" -> {-8, 0, 2, 6}
       [] t = "int16" -> {-2, 2}
       [] t = "int32" -> {-16, 0, 14}
       [] t = "int64" -> {-64, -62, -32, 0, 2, 14, 32, 34, 36, 38}
       [] t = "float" -> {-2, 0, 1, 2, 36}
       [] t = "double" -> {-64, -1, 1, 2, 32, 40}
       [] t = "bool" -> {0, Whole}
       [] t \in {"string", "vector"} -> {0, 1, 2}
       [] t = "null" -> {0}]

(* Whole numbers above 16 are rounded to even ones, ties to multiples of 4. *)
MCNumbers == UNION {MCNumber[t] : t \in Types}
MCDouble ==
  [n \in MCNumbers |->
     IF (-MCExact <= n /\ n <= MCExact) \/ n % 4 = 0 THEN n
     ELSE IF n % 8 = 2 THEN n - 2 ELSE n + 2]

v(n) == [type |-> "int32", n |-> n]

c0 == Column(0)
c1 == Column(1)
c2 == Column(2)
one == Constant([type |-> "int64", n |-> 2])

Predicates ==
  {Binary("=", c0, one), Binary("AND", Binary("<", c1, one), Node("unary", <<c2>>)),
   [Node("between", <<c0, one, c1>>) EXCEPT !.negated = TRUE],
   Node("in", <<c1, one, c2>>), Node("like", <<c0, c2>>)}

Expressions ==
  Predicates \cup {c0, c1, c2, one, Call(<<c1>>, TRUE), Call(<<c0, c2>>, FALSE)}

MCConditions ==
  {<<>>}
  \cup {<<Binary("<", Constant(a), Constant(b))>> : a, b \in Values}
  \cup {<<Binary(op, c0, Constant(v(14)))>> : op \in Comparing \cup {"+"}}
  \cup {<<Binary(op, Binary("<", c0, x), Binary("=", y, c2))>> :
          op \in {"AND", "OR"}, x, y \in {c0, c1, one, Constant(NullValue)}}
  \cup {<<x>> : x \in Expressions}

(* The expressions with all their parts; none is more than two levels high. *)
Used ==
  Expressions \cup {Binary("=", c2, one), Call(<<c2>>, TRUE)}
    \cup {c[1] : c \in MCConditions \ {<<>>}}
Parts == {e.parts[1] : e \in {x \in Used : x.parts # <<>>}}
           \cup {e.parts[2] : e \in {x \in Used : Len(x.parts) > 1}}
           \cup {c0, c1, c2, one}
MCTrees == Used \cup Parts
MCHeight ==
  [e \in MCTrees |->
     IF e.parts = <<>> THEN 0 ELSE IF \A p \in Range(e.parts) : p.parts = <<>> THEN 1 ELSE 2]

Option(S) == {<<>>} \cup {<<x>> : x \in S}

Select(items, where, group, having, order, limit, offset) ==
  [kind |-> "select", items |-> items, where |-> where, group |-> group,
   having |-> having, order |-> order, limit |-> limit, offset |-> offset]

Numbered == {<<>>, <<0>>, <<1>>, <<2>>, <<4>>}
Lists == {<<x>> : x \in Expressions} \cup {<<x, y>> : x, y \in Expressions}

MCStatements ==
  {Select(i, w, <<>>, <<>>, o, <<>>, <<>>) :
     i \in Lists, w \in Option(Predicates), o \in Option({c1, c2})}
  \cup
  {Select(i, w, g, h, o, <<>>, <<1>>) :
     i \in {<<c0>>, <<c1, one>>, <<Call(<<c1>>, TRUE)>>, <<c0, Call(<<c2>>, TRUE)>>},
     w \in Option({Binary("=", c2, one)}), g \in Option({c0, c2}) \cup {<<c0, c1>>},
     h \in Option(Predicates), o \in Option({c2}) \cup {<<c0, c1>>}}
  \cup
  {Select(i, <<>>, <<>>, <<>>, <<>>, l, o) :
     i \in {<<c0>>, <<c1, c0>>, <<one>>, <<c2>>}, l \in Numbered, o \in Numbered}
  \cup
  {[kind |-> "delete", where |-> w] : w \in Option(Predicates)}
  \cup
  {[kind |-> "update", where |-> w, targets |-> t, items |-> i] :
     w \in Option(Predicates), t \in {<<c0, c2>>, <<c1, c1>>},
     i \in {<<x, y>> : x, y \in Expressions}}

MCCollections ==
  {<<>>, << <<>> >>,
   << << <<v(0), v(-16)>>, <<v(14), NullValue, v(-16)>>, <<v(-16), v(0), v(14)>> >> >>}
=============================================================================
