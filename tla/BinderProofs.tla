---------------------------- MODULE BinderProofs ----------------------------
(***************************************************************************)
(* Theorems about the binder, for every catalog and every set of           *)
(* statements.  The invariants are proved together, as one inductive       *)
(* invariant; every bind_* handler ends in one of three ways (an early     *)
(* return or throw, a throw inside the statement, a restored return), and  *)
(* one lemma for each says what it preserves.                              *)
(***************************************************************************)
EXTENDS Binder, FiniteSetTheorems, TLAPS

(* The current database's name and id belong together.                     *)
NameMatchesId ==
  context.database_id # NONE => DatabaseName[context.database_id] = context.database_name

IInv == TypeOK /\ RefsInScope /\ InsertComplete /\ InCurrentDatabase /\ NameMatchesId

-----------------------------------------------------------------------------
(* The catalog's answers.                                                  *)

LEMMA PickIsMember == ASSUME NEW S PROVE Pick(S) = NONE \/ Pick(S) \in S
BY DEF Pick

LEMMA ResolveDatabase ==
  ASSUME NEW name, resolve_database(name) # NONE
  PROVE  /\ resolve_database(name) \in LiveDatabases
         /\ DatabaseName[resolve_database(name)] = name
BY PickIsMember, Zenon DEF resolve_database

LEMMA ResolveCollection ==
  ASSUME NEW d, NEW name, resolve_collection(d, name) # NONE
  PROVE  /\ resolve_collection(d, name) \in LiveCollections
         /\ Home[resolve_collection(d, name)] = d
         /\ CollectionName[resolve_collection(d, name)] = name
BY PickIsMember, Zenon DEF resolve_collection

LEMMA ResolveColumn ==
  ASSUME NEW c, NEW name, resolve_column(c, name) # 0
  PROVE  /\ c \in LiveCollections
         /\ resolve_column(c, name) \in DOMAIN Columns[c]
         /\ Columns[c][resolve_column(c, name)].name = name
BY DEF resolve_column

(* A column id is a position in its table.                                 *)
LEMMA ColumnPositions ==
  ASSUME NEW c \in CollectionIds
  PROVE  /\ Columns[c] \in Seq(ColumnInfos)
         /\ DOMAIN Columns[c] = 1..Len(Columns[c])
         /\ Len(Columns[c]) \in Nat
         /\ DOMAIN Columns[c] \subseteq Nat
BY CatalogAssumption

LEMMA NamedIsCurrent ==
  ASSUME TypeOK, NEW name, NamedCollection(name) # NONE
  PROVE  /\ context.database_id \in DatabaseIds
         /\ NamedCollection(name) \in LiveCollections
         /\ NamedCollection(name) \in CollectionIds
         /\ Home[NamedCollection(name)] = context.database_id
BY ResolveCollection DEF NamedCollection, TypeOK, Contexts, LiveCollections

-----------------------------------------------------------------------------
(* What is known of a bound reference, found with ctx as the collection of *)
(* the context.                                                            *)
InScope(r, ctx) ==
  /\ r \in BoundRefs
  /\ r.column \in DOMAIN Columns[r.collection]
  /\ Columns[r.collection][r.column].name = r.ref.column
  /\ r.ref.collection = NONE => r.collection = ctx
  /\ r.ref.collection # NONE => CollectionName[r.collection] = r.ref.collection
  /\ r.ref.collection # NONE /\ r.ref.database = NONE =>
       Home[r.collection] = context.database_id
  /\ r.ref.database # NONE => DatabaseName[Home[r.collection]] = r.ref.database

LEMMA BoundRefInScope ==
  ASSUME TypeOK, NEW ctx \in CollectionIds \cup {NONE}, NEW ref \in ColumnRefs,
         RefBinds(ref, ctx)
  PROVE  InScope([ref |-> ref, collection |-> RefCollection(ref, ctx),
                  column |-> resolve_column(RefCollection(ref, ctx), ref.column)], ctx)
<1> DEFINE c == RefCollection(ref, ctx)
           k == resolve_column(c, ref.column)
<1>1. /\ c # NONE
      /\ c \in LiveCollections
      /\ k \in DOMAIN Columns[c]
      /\ Columns[c][k].name = ref.column
  BY ResolveColumn DEF RefBinds
<1>2. c \in CollectionIds
  BY <1>1 DEF LiveCollections
<1>3. k \in Nat
  BY <1>1, <1>2, ColumnPositions
<1>4. ref.collection = NONE => c = ctx
  BY <1>1 DEF RefCollection
<1>5. ref.collection # NONE =>
        /\ CollectionName[c] = ref.collection
        /\ Home[c] = RefDatabase(ref)
  BY <1>1, ResolveCollection DEF RefCollection
<1>6. ref.database # NONE =>
        /\ ref.collection # NONE
        /\ DatabaseName[RefDatabase(ref)] = ref.database
  <2>1. RefDatabase(ref) # NONE
    BY <1>1 DEF RefCollection
  <2>2. QED
    BY <2>1, ResolveDatabase DEF RefDatabase, ColumnRefs
<1>7. ref.database = NONE => RefDatabase(ref) = context.database_id
  BY DEF RefDatabase
<1> HIDE DEF c, k
<1>8. QED
  BY <1>1, <1>2, <1>3, <1>4, <1>5, <1>6, <1>7 DEF InScope, BoundRefs, c, k

LEMMA AllRefsInScope ==
  ASSUME TypeOK, NEW ctx \in CollectionIds \cup {NONE}, NEW exprs \in SUBSET Exprs,
         AllBind(exprs, ctx)
  PROVE  \A r \in AllRefs(exprs, ctx) : InScope(r, ctx)
<1> SUFFICES ASSUME NEW e \in exprs, NEW ref \in e.refs
             PROVE  InScope([ref |-> ref, collection |-> RefCollection(ref, ctx),
                             column |-> resolve_column(RefCollection(ref, ctx), ref.column)],
                            ctx)
  BY DEF AllRefs, BoundRefsOf
<1>1. ref \in ColumnRefs
  BY ExprsAssumption
<1>2. RefBinds(ref, ctx)
  BY DEF AllBind, Binds
<1>3. QED
  BY <1>1, <1>2, BoundRefInScope

-----------------------------------------------------------------------------
(* The three ways a handler ends.                                          *)

LEMMA ThrowPreserves ==
  ASSUME IInv, NEW s \in {"none", "error", "aborted"}, NEW kind \in Kinds,
         Return(NotBound(s, kind))
  PROVE  IInv'
<1>1. TypeOK'
  BY DEF Return, NotBound, IInv, TypeOK, Results
<1>2. /\ result'.status # "bound"
      /\ result'.collection = NONE
      /\ UNCHANGED context
  BY DEF Return, NotBound
<1>3. QED
  BY <1>1, <1>2 DEF IInv, RefsInScope, InsertComplete, InCurrentDatabase, IsBound, NameMatchesId

LEMMA ThrowInsidePreserves ==
  ASSUME IInv, NEW c \in CollectionIds, NEW kind \in Kinds, ThrowInside(kind, c)
  PROVE  IInv'
<1>1. TypeOK'
  BY DEF ThrowInside, NotBound, IInv, TypeOK, Results, Contexts
<1>2. /\ result'.status # "bound"
      /\ result'.collection = NONE
      /\ context'.database_id = context.database_id
      /\ context'.database_name = context.database_name
  BY DEF ThrowInside, NotBound, IInv, TypeOK, Contexts
<1>3. QED
  BY <1>1, <1>2 DEF IInv, RefsInScope, InsertComplete, InCurrentDatabase, IsBound, NameMatchesId

(* A statement on a named collection.                                      *)
LEMMA ReturnPreserves ==
  ASSUME IInv, NEW kind \in Kinds,
         NEW d \in DatabaseIds, NEW c \in CollectionIds, Home[c] = d,
         kind \in {"SHOW INDEXES", "SHOW VINDEXES"} \/ d = context.database_id,
         NEW items \in SUBSET (Nat \X Nat), NEW refs, \A r \in refs : InScope(r, c),
         kind = "INSERT" =>
           /\ NotNull(c) \subseteq {p[1] : p \in items}
           /\ \A p, q \in items : p[1] = q[1] <=> p[2] = q[2],
         Return(Bound(kind, d, c, items, refs))
  PROVE  IInv'
<1>1. /\ result' = Bound(kind, d, c, items, refs)
      /\ UNCHANGED <<catalog, context>>
  BY DEF Return
<1>2. refs \in SUBSET BoundRefs
  BY DEF InScope
<1>3. TypeOK'
  BY <1>1, <1>2 DEF Bound, IInv, TypeOK, Results
<1>4. /\ result'.status = "bound"
      /\ result'.kind = kind
      /\ result'.database = d
      /\ result'.collection = c
      /\ result'.items = items
      /\ result'.refs = refs
  BY <1>1 DEF Bound
<1>5. RefsInScope'
  <2> SUFFICES ASSUME IsBound(StatementKinds)', NEW r \in refs
               PROVE  /\ r.column \in DOMAIN Columns[r.collection]
                      /\ Columns[r.collection][r.column].name = r.ref.column
                      /\ r.ref.collection = NONE => r.collection = c
                      /\ r.ref.collection # NONE => CollectionName[r.collection] = r.ref.collection
                      /\ r.ref.database = NONE => Home[r.collection] = d
                      /\ r.ref.database # NONE =>
                           DatabaseName[Home[r.collection]] = r.ref.database
    BY <1>4 DEF RefsInScope
  <2>1. d = context.database_id
    BY <1>4 DEF IsBound, StatementKinds
  <2>2. QED
    BY <2>1 DEF InScope
<1>6. InsertComplete'
  BY <1>4 DEF InsertComplete, IsBound, NotNull
<1>7. InCurrentDatabase'
  BY <1>1, <1>4, NamesAssumption DEF InCurrentDatabase, IsBound, IInv, NameMatchesId
<1>8. NameMatchesId'
  BY <1>1 DEF NameMatchesId, IInv
<1>9. QED
  BY <1>3, <1>5, <1>6, <1>7, <1>8 DEF IInv

(* A statement that names no collection.                                   *)
LEMMA ReturnNonePreserves ==
  ASSUME IInv, NEW kind \in Kinds \ StatementKinds, NEW d \in DatabaseIds \cup {NONE},
         NEW refs \in SUBSET BoundRefs,
         Return(Bound(kind, d, NONE, {}, refs))
  PROVE  IInv'
<1>1. TypeOK'
  BY DEF Return, Bound, IInv, TypeOK, Results
<1>2. /\ result'.kind = kind
      /\ result'.collection = NONE
      /\ UNCHANGED context
  BY DEF Return, Bound
<1>3. QED
  BY <1>1, <1>2 DEF IInv, RefsInScope, InsertComplete, InCurrentDatabase, IsBound,
                    NameMatchesId, StatementKinds

-----------------------------------------------------------------------------
(* The items of an INSERT.                                                 *)

(* The rank of an element in a finite set of numbers tells it apart.       *)
LEMMA RankInjective ==
  ASSUME NEW S \in SUBSET Nat, IsFiniteSet(S), NEW k \in S, NEW l \in S, k < l
  PROVE  /\ Cardinality({j \in S : j <= k}) \in Nat
         /\ Cardinality({j \in S : j <= l}) \in Nat
         /\ Cardinality({j \in S : j <= k}) # Cardinality({j \in S : j <= l})
<1> DEFINE below == {j \in S : j <= k}
           above == {j \in S : j <= l}
<1>1. IsFiniteSet(above) /\ IsFiniteSet(below)
  BY FS_Subset
<1>2. below \subseteq above /\ below # above
  <2>1. l \in above /\ l \notin below
    OBVIOUS
  <2>2. \A j \in below : j \in above
    OBVIOUS
  <2>3. QED
    BY <2>1, <2>2
<1>3. Cardinality(below) \in Nat /\ Cardinality(above) \in Nat
  BY <1>1, FS_CardinalityType
<1>4. Cardinality(below) # Cardinality(above)
  BY <1>1, <1>2, <1>3, FS_Subset
<1>5. QED
  BY <1>3, <1>4

LEMMA PositionalItemsComplete ==
  ASSUME NEW c \in CollectionIds, NEW n
  PROVE  /\ PositionalItems(c, n) \in SUBSET (Nat \X Nat)
         /\ NotNull(c) \subseteq {p[1] : p \in PositionalItems(c, n)}
         /\ \A p, q \in PositionalItems(c, n) : p[1] = q[1] <=> p[2] = q[2]
<1> DEFINE taking == IF n = Cardinality(NotNull(c)) THEN NotNull(c) ELSE DOMAIN Columns[c]
           rank(k) == Cardinality({j \in taking : j <= k})
<1>1. DOMAIN Columns[c] \in SUBSET Nat /\ IsFiniteSet(DOMAIN Columns[c])
  BY ColumnPositions, FS_Interval
<1>2. taking \in SUBSET Nat /\ IsFiniteSet(taking) /\ NotNull(c) \subseteq taking
  BY <1>1, FS_Subset DEF NotNull
<1>3. PositionalItems(c, n) = {<<k, rank(k)>> : k \in taking}
  BY DEF PositionalItems
<1> HIDE DEF taking
<1>4. \A k \in taking : rank(k) \in Nat
  BY <1>2, FS_Subset, FS_CardinalityType
<1>5. \A k, l \in taking : rank(k) = rank(l) => k = l
  <2> SUFFICES ASSUME NEW k \in taking, NEW l \in taking, k # l PROVE rank(k) # rank(l)
    OBVIOUS
  <2>1. k < l \/ l < k
    BY <1>2
  <2>2. CASE k < l
    BY <1>2, <2>2, RankInjective
  <2>3. CASE l < k
    BY <1>2, <2>3, RankInjective
  <2>4. QED
    BY <2>1, <2>2, <2>3
<1> HIDE DEF rank
<1>6. PositionalItems(c, n) \in SUBSET (Nat \X Nat)
  BY <1>2, <1>3, <1>4
<1>7. NotNull(c) \subseteq {p[1] : p \in PositionalItems(c, n)}
  <2> SUFFICES ASSUME NEW k \in NotNull(c)
               PROVE  \E p \in PositionalItems(c, n) : k = p[1]
    OBVIOUS
  <2>1. <<k, rank(k)>> \in PositionalItems(c, n)
    BY <1>2, <1>3
  <2>2. QED
    BY <2>1
<1>8. \A p, q \in PositionalItems(c, n) : p[1] = q[1] <=> p[2] = q[2]
  BY <1>3, <1>5
<1>9. QED
  BY <1>6, <1>7, <1>8

LEMMA ListedItemsPairUp ==
  ASSUME NEW c \in CollectionIds, NEW names \in Lists(ColumnNames), ColumnListOk(c, names)
  PROVE  /\ ListedItems(c, names) \in SUBSET (Nat \X Nat)
         /\ \A p, q \in ListedItems(c, names) : p[1] = q[1] <=> p[2] = q[2]
<1>1. DOMAIN names \subseteq Nat
  BY NamesAssumption DEF Lists
<1>2. ListedItems(c, names) \in SUBSET (Nat \X Nat)
  BY <1>1, ColumnPositions DEF ListedItems
<1>3. ASSUME NEW p \in ListedItems(c, names), NEW q \in ListedItems(c, names)
      PROVE  p[1] = q[1] <=> p[2] = q[2]
  <2>1. /\ p[1] \in DOMAIN Columns[c] /\ q[1] \in DOMAIN Columns[c]
        /\ p[2] \in DOMAIN names /\ q[2] \in DOMAIN names
        /\ Columns[c][p[1]].name = names[p[2]]
        /\ Columns[c][q[1]].name = names[q[2]]
    BY DEF ListedItems
  <2>2. p[1] = q[1] => p[2] = q[2]
    BY <2>1 DEF ColumnListOk
  <2>3. p[2] = q[2] => p[1] = q[1]
    BY <2>1, CatalogAssumption
  <2>4. QED
    BY <2>2, <2>3
<1>4. QED
  BY <1>2, <1>3

-----------------------------------------------------------------------------
(* The handlers, one lemma each.                                           *)

LEMMA SomeException ==
  ASSUME IInv, NEW kind \in Kinds, Throw(kind)
  PROVE  IInv'
BY ThrowPreserves DEF Throw

LEMMA OptionalExprs ==
  ASSUME NEW e \in Wheres
  PROVE  Optional(e) \in SUBSET Exprs
BY DEF Wheres, Optional

(* SELECT, DELETE, UPDATE, INSERT and ALTER return the same way.           *)
LEMMA StatementPreserves ==
  ASSUME IInv, NEW kind \in StatementKinds, NEW name, NamedCollection(name) # NONE,
         NEW items \in SUBSET (Nat \X Nat),
         NEW exprs \in SUBSET Exprs, AllBind(exprs, NamedCollection(name)),
         kind = "INSERT" =>
           /\ NotNull(NamedCollection(name)) \subseteq {p[1] : p \in items}
           /\ \A p, q \in items : p[1] = q[1] <=> p[2] = q[2],
         ReturnRestored(Bound(kind, context.database_id, NamedCollection(name), items,
                              AllRefs(exprs, NamedCollection(name))))
  PROVE  IInv'
<1> DEFINE c == NamedCollection(name)
<1>1. /\ c \in CollectionIds
      /\ context.database_id \in DatabaseIds
      /\ Home[c] = context.database_id
  BY NamedIsCurrent DEF IInv
<1>2. \A r \in AllRefs(exprs, c) : InScope(r, c)
  BY <1>1, AllRefsInScope DEF IInv
<1>3. kind \in Kinds
  BY DEF Kinds, StatementKinds
<1>4. Return(Bound(kind, context.database_id, c, items, AllRefs(exprs, c)))
  BY DEF Return, ReturnRestored
<1> HIDE DEF c
<1>5. kind = "INSERT" =>
        /\ NotNull(c) \subseteq {p[1] : p \in items}
        /\ \A p, q \in items : p[1] = q[1] <=> p[2] = q[2]
  BY DEF c
<1>6. QED
  BY <1>1, <1>2, <1>3, <1>4, <1>5, ReturnPreserves

(* They throw the same way, too.                                           *)
LEMMA StatementThrowPreserves ==
  ASSUME IInv, NEW kind \in Kinds, NEW name,
         \/ Throw(kind)
         \/ /\ NamedCollection(name) # NONE
            /\ ThrowInside(kind, NamedCollection(name))
  PROVE  IInv'
<1>1. CASE Throw(kind)
  BY <1>1, SomeException
<1>2. CASE NamedCollection(name) # NONE /\ ThrowInside(kind, NamedCollection(name))
  BY <1>2, NamedIsCurrent, ThrowInsidePreserves DEF IInv
<1>3. QED
  BY <1>1, <1>2

(* Statements that bind a collection and no expression.                    *)
LEMMA LookupPreserves ==
  ASSUME IInv, NEW kind \in Kinds \ {"INSERT"}, NEW name, NamedCollection(name) # NONE,
         NEW items \in SUBSET (Nat \X Nat),
         Return(Bound(kind, context.database_id, NamedCollection(name), items, {}))
  PROVE  IInv'
<1> DEFINE c == NamedCollection(name)
           noRefs == {}
<1>1. /\ c \in CollectionIds
      /\ context.database_id \in DatabaseIds
      /\ Home[c] = context.database_id
  BY NamedIsCurrent DEF IInv
<1>2. Return(Bound(kind, context.database_id, c, items, noRefs))
  OBVIOUS
<1>3. \A r \in noRefs : InScope(r, c)
  OBVIOUS
<1> HIDE DEF c, noRefs
<1>4. kind \in Kinds /\ kind # "INSERT"
  OBVIOUS
<1>5. QED
  BY <1>1, <1>2, <1>3, <1>4, ReturnPreserves

(* ... and no column either.                                               *)
LEMMA CollectionOnlyPreserves ==
  ASSUME IInv, NEW kind \in Kinds \ {"INSERT"}, NEW name, NamedCollection(name) # NONE,
         Return(Bound(kind, context.database_id, NamedCollection(name), {}, {}))
  PROVE  IInv'
<1> DEFINE items == {}
<1>1. items \in SUBSET (Nat \X Nat)
  OBVIOUS
<1>2. Return(Bound(kind, context.database_id, NamedCollection(name), items, {}))
  OBVIOUS
<1> HIDE DEF items
<1>3. QED
  BY <1>1, <1>2, LookupPreserves

(* Statements that bind at most a database.                                *)
LEMMA DatabaseOnlyPreserves ==
  ASSUME IInv, NEW kind \in Kinds \ StatementKinds, NEW d \in DatabaseIds \cup {NONE},
         Return(Bound(kind, d, NONE, {}, {}))
  PROVE  IInv'
<1> DEFINE refs == {}
<1>1. refs \in SUBSET BoundRefs /\ Return(Bound(kind, d, NONE, {}, refs))
  OBVIOUS
<1> HIDE DEF refs
<1>2. QED
  BY <1>1, ReturnNonePreserves

LEMMA BindSelectPreserves ==
  ASSUME IInv, NEW name, NEW star \in BOOLEAN, NEW exprs \in SUBSET Exprs,
         BindSelect(name, star, exprs)
  PROVE  IInv'
<1> DEFINE c == NamedCollection(name)
           items == IF star THEN {<<i, i>> : i \in DOMAIN Columns[c]} ELSE {}
<1>1. CASE Throw("SELECT") \/ (c # NONE /\ ThrowInside("SELECT", c))
  BY <1>1, StatementThrowPreserves DEF Kinds
<1>2. CASE /\ c # NONE /\ AllBind(exprs, c)
           /\ ReturnRestored(Bound("SELECT", context.database_id, c, items, AllRefs(exprs, c)))
  <2>1. items \in SUBSET (Nat \X Nat)
    BY <1>2, NamedIsCurrent, ColumnPositions DEF IInv
  <2> HIDE DEF items
  <2>2. QED
    BY <1>2, <2>1, StatementPreserves DEF StatementKinds
<1>3. QED
  BY <1>1, <1>2 DEF BindSelect

LEMMA BindDeletePreserves ==
  ASSUME IInv, NEW name, NEW where \in Wheres, BindDelete(name, where)
  PROVE  IInv'
<1> DEFINE c == NamedCollection(name)
<1>1. CASE Throw("DELETE") \/ (c # NONE /\ ThrowInside("DELETE", c))
  BY <1>1, StatementThrowPreserves DEF Kinds
<1>2. CASE /\ c # NONE /\ AllBind(Optional(where), c)
           /\ ReturnRestored(Bound("DELETE", context.database_id, c, {},
                                   AllRefs(Optional(where), c)))
  BY <1>2, OptionalExprs, StatementPreserves DEF StatementKinds
<1>3. QED
  BY <1>1, <1>2 DEF BindDelete

LEMMA BindUpdatePreserves ==
  ASSUME IInv, NEW name, NEW targets \in Lists(ColumnNames) \ {<<>>},
         NEW values \in [DOMAIN targets -> Exprs], NEW where \in Wheres,
         BindUpdate(name, targets, values, where)
  PROVE  IInv'
<1> DEFINE c == NamedCollection(name)
           exprs == {values[i] : i \in DOMAIN targets} \cup Optional(where)
           items == {<<resolve_column(c, targets[i]), i>> : i \in DOMAIN targets}
<1>1. CASE Throw("UPDATE") \/ (c # NONE /\ ThrowInside("UPDATE", c))
  BY <1>1, StatementThrowPreserves DEF Kinds
<1>2. CASE /\ c # NONE /\ AllBind(exprs, c)
           /\ \A i \in DOMAIN targets : resolve_column(c, targets[i]) # 0
           /\ ReturnRestored(Bound("UPDATE", context.database_id, c, items, AllRefs(exprs, c)))
  <2>1. exprs \in SUBSET Exprs
    BY OptionalExprs
  <2>2. DOMAIN targets \subseteq Nat
    BY NamesAssumption DEF Lists
  <2>3. items \in SUBSET (Nat \X Nat)
    <3> SUFFICES ASSUME NEW i \in DOMAIN targets
                 PROVE  resolve_column(c, targets[i]) \in Nat /\ i \in Nat
      OBVIOUS
    <3>1. c \in CollectionIds /\ resolve_column(c, targets[i]) \in DOMAIN Columns[c]
      BY <1>2, NamedIsCurrent, ResolveColumn DEF IInv
    <3>2. QED
      BY <2>2, <3>1, ColumnPositions
  <2> HIDE DEF items, exprs
  <2>4. QED
    BY <1>2, <2>1, <2>3, StatementPreserves DEF StatementKinds
<1>3. QED
  BY <1>1, <1>2 DEF BindUpdate

LEMMA BindInsertPreserves ==
  ASSUME IInv, NEW name, NEW names \in Lists(ColumnNames),
         NEW values \in Lists(Exprs) \ {<<>>}, BindInsert(name, names, values)
  PROVE  IInv'
<1> DEFINE c == NamedCollection(name)
           items == InsertItems(c, names, values)
           exprs == {values[p[2]] : p \in items}
<1>1. CASE Throw("INSERT") \/ (c # NONE /\ ThrowInside("INSERT", c))
  BY <1>1, StatementThrowPreserves DEF Kinds
<1>2. CASE Return(NotBound("aborted", "INSERT"))
  BY <1>2, ThrowPreserves DEF Kinds
<1>3. CASE /\ c # NONE
           /\ InsertShapeOk(c, names, values)
           /\ \A p \in items : ~Stops(p, values, c)
           /\ CoversNotNull(c, items)
           /\ ReturnRestored(Bound("INSERT", context.database_id, c, items, AllRefs(exprs, c)))
  <2>1. c \in CollectionIds
    BY <1>3, NamedIsCurrent DEF IInv
  <2>2. /\ items \in SUBSET (Nat \X Nat)
        /\ \A p, q \in items : p[1] = q[1] <=> p[2] = q[2]
    <3>1. CASE names = <<>>
      BY <2>1, <3>1, PositionalItemsComplete DEF InsertItems
    <3>2. CASE names # <<>>
      BY <1>3, <2>1, <3>2, ListedItemsPairUp DEF InsertItems, InsertShapeOk
    <3>3. QED
      BY <3>1, <3>2
  <2>3. exprs \in SUBSET Exprs
    BY <1>3 DEF Stops, ValueMissing, Lists
  <2>4. AllBind(exprs, c)
    BY <1>3 DEF Stops, AllBind
  <2>5. NotNull(c) \subseteq {p[1] : p \in items}
    BY <1>3 DEF CoversNotNull
  <2> HIDE DEF items, exprs
  <2>6. QED
    BY <1>3, <2>2, <2>3, <2>4, <2>5, StatementPreserves DEF StatementKinds
<1>4. QED
  BY <1>1, <1>2, <1>3 DEF BindInsert

(* The four ALTER operations.                                              *)
LEMMA BindAlterPreserves ==
  ASSUME IInv, NEW name, NEW ok \in BOOLEAN, NEW items \in SUBSET (Nat \X Nat),
         NEW exprs \in SUBSET Exprs,
         NamedCollection(name) # NONE /\ ok => AllBind(exprs, NamedCollection(name)),
         BindAlter(NamedCollection(name), ok, items, AllRefs(exprs, NamedCollection(name)))
  PROVE  IInv'
<1> DEFINE c == NamedCollection(name)
<1>1. CASE Throw("ALTER") \/ (c # NONE /\ ThrowInside("ALTER", c))
  BY <1>1, StatementThrowPreserves DEF Kinds
<1>2. CASE /\ c # NONE /\ ok
           /\ ReturnRestored(Bound("ALTER", context.database_id, c, items, AllRefs(exprs, c)))
  BY <1>2, StatementPreserves DEF StatementKinds
<1>3. QED
  BY <1>1, <1>2 DEF BindAlter

LEMMA NoRefs == ASSUME NEW ctx PROVE AllBind({}, ctx) /\ AllRefs({}, ctx) = {}
BY DEF AllBind, AllRefs

LEMMA DefaultExprs ==
  ASSUME NEW def \in ColumnDefs
  PROVE  Optional(def.default) \in SUBSET Exprs
BY ColumnDefsAssumption DEF Optional

LEMMA ColumnIdIsNat ==
  ASSUME NEW c, NEW name
  PROVE  resolve_column(c, name) \in Nat
<1>1. CASE resolve_column(c, name) = 0
  BY <1>1
<1>2. CASE resolve_column(c, name) # 0
  BY <1>2, ResolveColumn, ColumnPositions DEF LiveCollections
<1>3. QED
  BY <1>1, <1>2

LEMMA BindAlterAddColumnPreserves ==
  ASSUME IInv, NEW name, NEW def \in ColumnDefs, BindAlterAddColumn(name, def)
  PROVE  IInv'
<1> DEFINE c == NamedCollection(name)
<1>1. DefBinds(def, c) => AllBind(Optional(def.default), c)
  BY DEF DefBinds
<1>2. BindAlter(c, DefBinds(def, c), {}, AllRefs(Optional(def.default), c))
  BY DEF BindAlterAddColumn, DefRefs
<1>3. DefBinds(def, c) \in BOOLEAN
  BY ColumnDefsAssumption DEF DefBinds, AllBind
<1>4. QED
  BY <1>1, <1>2, <1>3, DefaultExprs, BindAlterPreserves

LEMMA BindAlterColumnPreserves ==
  ASSUME IInv, NEW name, NEW column, BindAlterColumn(name, column)
  PROVE  IInv'
<1> DEFINE c == NamedCollection(name)
           k == resolve_column(c, column)
           exprs == {}
<1>1. BindAlter(c, k # 0, {<<k, 1>>}, AllRefs(exprs, c))
  BY NoRefs DEF BindAlterColumn
<1>2. AllBind(exprs, c) /\ {<<k, 1>>} \in SUBSET (Nat \X Nat) /\ exprs \in SUBSET Exprs
  BY NoRefs, ColumnIdIsNat
<1> HIDE DEF k, exprs
<1>3. QED
  BY <1>1, <1>2, BindAlterPreserves

LEMMA BindAlterModifyColumnPreserves ==
  ASSUME IInv, NEW name, NEW def \in ColumnDefs, BindAlterModifyColumn(name, def)
  PROVE  IInv'
<1> DEFINE c == NamedCollection(name)
           k == resolve_column(c, def.name)
           ok == k # 0 /\ DefBinds(def, c)
<1>1. BindAlter(c, ok, {<<k, 1>>}, AllRefs(Optional(def.default), c))
  BY DEF BindAlterModifyColumn, DefRefs
<1>2. ok => AllBind(Optional(def.default), c)
  BY DEF DefBinds
<1>3. {<<k, 1>>} \in SUBSET (Nat \X Nat)
  BY ColumnIdIsNat
<1>4. ok \in BOOLEAN
  BY DEF DefBinds, AllBind
<1> HIDE DEF k, ok
<1>5. QED
  BY <1>1, <1>2, <1>3, <1>4, DefaultExprs, BindAlterPreserves

LEMMA BindCreateCollectionPreserves ==
  ASSUME IInv, NEW defs \in SUBSET ColumnDefs, BindCreateCollection(defs)
  PROVE  IInv'
<1> DEFINE ctx == context.collection_id
           refs == UNION {DefRefs(def, ctx) : def \in defs}
<1>1. CASE Throw("CREATE COLLECTION")
  BY <1>1, SomeException DEF Kinds
<1>2. CASE /\ \A def \in defs : DefBinds(def, ctx)
           /\ Return(Bound("CREATE COLLECTION", NONE, NONE, {}, refs))
  <2>1. TypeOK /\ ctx \in CollectionIds \cup {NONE}
    BY DEF IInv, TypeOK, Contexts
  <2>2. refs \in SUBSET BoundRefs
    <3> SUFFICES ASSUME NEW def \in defs, NEW r \in DefRefs(def, ctx) PROVE r \in BoundRefs
      OBVIOUS
    <3>1. r \in AllRefs(Optional(def.default), ctx) /\ AllBind(Optional(def.default), ctx)
      BY <1>2 DEF DefRefs, DefBinds
    <3>2. QED
      BY <2>1, <3>1, DefaultExprs, AllRefsInScope DEF InScope
  <2> HIDE DEF refs
  <2>3. QED
    BY <1>2, <2>2, ReturnNonePreserves DEF Kinds, StatementKinds
<1>3. QED
  BY <1>1, <1>2 DEF BindCreateCollection

LEMMA BindCreateIndexPreserves ==
  ASSUME IInv, NEW name, NEW columns \in Lists(ColumnNames) \ {<<>>},
         NEW typeOk \in BOOLEAN, BindCreateIndex(name, columns, typeOk)
  PROVE  IInv'
<1> DEFINE c == NamedCollection(name)
           items == {<<resolve_column(c, columns[i]), i>> : i \in DOMAIN columns}
<1>1. CASE Throw("CREATE INDEX")
  BY <1>1, SomeException DEF Kinds
<1>2. CASE c # NONE /\ Return(Bound("CREATE INDEX", context.database_id, c, items, {}))
  <2>1. DOMAIN columns \subseteq Nat
    BY NamesAssumption DEF Lists
  <2>2. items \in SUBSET (Nat \X Nat)
    BY <2>1, ColumnIdIsNat
  <2> HIDE DEF items
  <2>3. QED
    BY <1>2, <2>2, LookupPreserves DEF Kinds
<1>3. QED
  BY <1>1, <1>2 DEF BindCreateIndex

LEMMA BindCreateVIndexPreserves ==
  ASSUME IInv, NEW name, NEW column, NEW type, NEW options,
         BindCreateVIndex(name, column, type, options)
  PROVE  IInv'
<1> DEFINE c == NamedCollection(name)
           items == {<<resolve_column(c, column), 1>>}
<1>1. CASE Throw("CREATE VINDEX")
  BY <1>1, SomeException DEF Kinds
<1>2. CASE c # NONE /\ Return(Bound("CREATE VINDEX", context.database_id, c, items, {}))
  <2>1. items \in SUBSET (Nat \X Nat)
    BY ColumnIdIsNat
  <2> HIDE DEF items
  <2>2. QED
    BY <1>2, <2>1, LookupPreserves DEF Kinds
<1>3. QED
  BY <1>1, <1>2 DEF BindCreateVIndex

-----------------------------------------------------------------------------
LEMMA BindDescribePreserves ==
  ASSUME IInv, NEW name, BindDescribe(name)
  PROVE  IInv'
<1> DEFINE c == NamedCollection(name)
<1>1. CASE Throw("DESCRIBE")
  BY <1>1, SomeException DEF Kinds
<1>2. CASE c # NONE /\ Return(Bound("DESCRIBE", context.database_id, c, {}, {}))
  BY <1>2, CollectionOnlyPreserves DEF Kinds
<1>3. QED
  BY <1>1, <1>2 DEF BindDescribe

LEMMA BindDropDatabasePreserves ==
  ASSUME IInv, NEW name, NEW ifExists, BindDropDatabase(name, ifExists)
  PROVE  IInv'
<1>1. CASE Throw("DROP DATABASE")
  BY <1>1, SomeException DEF Kinds
<1>2. CASE Return(Bound("DROP DATABASE", resolve_database(name), NONE, {}, {}))
  <2>1. resolve_database(name) \in DatabaseIds \cup {NONE}
    BY ResolveDatabase DEF LiveDatabases
  <2>2. QED
    BY <1>2, <2>1, DatabaseOnlyPreserves DEF Kinds, StatementKinds
<1>3. QED
  BY <1>1, <1>2 DEF BindDropDatabase

LEMMA BindDropCollectionPreserves ==
  ASSUME IInv, NEW name, NEW ifExists, BindDropCollection(name, ifExists)
  PROVE  IInv'
<1> DEFINE c == NamedCollection(name)
<1>1. CASE Throw("DROP COLLECTION")
  BY <1>1, SomeException DEF Kinds
<1>2. CASE c # NONE /\ Return(Bound("DROP COLLECTION", context.database_id, c, {}, {}))
  BY <1>2, CollectionOnlyPreserves DEF Kinds
<1>3. CASE c = NONE /\ Return(Bound("DROP COLLECTION", context.database_id, c, {}, {}))
  BY <1>3, DatabaseOnlyPreserves DEF Kinds, StatementKinds, IInv, TypeOK, Contexts
<1>4. QED
  BY <1>1, <1>2, <1>3 DEF BindDropCollection

LEMMA BindDropNamedPreserves ==
  ASSUME IInv, NEW kind \in {"DROP INDEX", "DROP VINDEX"}, NEW indexes, NEW name,
         NEW index, NEW ifExists, BindDropNamed(kind, indexes, name, index, ifExists)
  PROVE  IInv'
<1> DEFINE c == NamedCollection(name)
           found == c # NONE /\ index \in indexes[c]
<1>0. kind \in Kinds \ {"INSERT"} /\ kind \in Kinds \ StatementKinds
  BY DEF Kinds, StatementKinds
<1>1. CASE Throw(kind)
  BY <1>0, <1>1, SomeException
<1>2. CASE c # NONE /\ Return(Bound(kind, context.database_id, c, {}, {}))
  BY <1>0, <1>2, CollectionOnlyPreserves
<1>3. CASE Return(Bound(kind, context.database_id, NONE, {}, {}))
  BY <1>0, <1>3, DatabaseOnlyPreserves DEF IInv, TypeOK, Contexts
<1>4. QED
  BY <1>1, <1>2, <1>3 DEF BindDropNamed

LEMMA BindShowCollectionsPreserves ==
  ASSUME IInv, NEW database, BindShowCollections(database)
  PROVE  IInv'
<1> DEFINE d == IF database = NONE THEN NONE ELSE resolve_database(database)
<1>1. CASE Throw("SHOW COLLECTIONS")
  BY <1>1, SomeException DEF Kinds
<1>2. CASE Return(Bound("SHOW COLLECTIONS", d, NONE, {}, {}))
  <2>1. d \in DatabaseIds \cup {NONE}
    BY ResolveDatabase DEF LiveDatabases
  <2> HIDE DEF d
  <2>2. QED
    BY <1>2, <2>1, DatabaseOnlyPreserves DEF Kinds, StatementKinds
<1>3. QED
  BY <1>1, <1>2 DEF BindShowCollections

LEMMA BindShowIndexesPreserves ==
  ASSUME IInv, NEW kind \in {"SHOW INDEXES", "SHOW VINDEXES"}, NEW database, NEW name,
         BindShowIndexes(kind, database, name)
  PROVE  IInv'
<1> DEFINE d == IF database = NONE THEN context.database_id ELSE resolve_database(database)
           c == IF d = NONE THEN NONE ELSE resolve_collection(d, name)
           noRefs == {}
<1>0. kind \in Kinds /\ kind # "INSERT"
  BY DEF Kinds
<1>1. CASE Throw(kind)
  BY <1>0, <1>1, SomeException
<1>2. CASE c # NONE /\ Return(Bound(kind, d, c, {}, noRefs))
  <2>1. d \in DatabaseIds
    BY <1>2, ResolveDatabase DEF LiveDatabases, IInv, TypeOK, Contexts
  <2>2. c \in CollectionIds /\ Home[c] = d
    BY <1>2, ResolveCollection DEF LiveCollections
  <2>3. \A r \in noRefs : InScope(r, c)
    OBVIOUS
  <2> HIDE DEF c, d, noRefs
  <2>4. QED
    BY <1>0, <1>2, <2>1, <2>2, <2>3, ReturnPreserves
<1>3. QED
  BY <1>1, <1>2 DEF BindShowIndexes

LEMMA BindUsePreserves ==
  ASSUME IInv, NEW name \in DatabaseNames, BindUse(name)
  PROVE  IInv'
<1> DEFINE d == resolve_database(name)
<1>1. CASE Throw("USE")
  BY <1>1, SomeException DEF Kinds
<1>2. CASE /\ d # NONE
           /\ context' = [context EXCEPT !.database_name = name, !.database_id = d]
           /\ result' = Bound("USE", d, NONE, {}, {})
           /\ UNCHANGED catalog
  <2>1. d \in DatabaseIds /\ DatabaseName[d] = name
    BY <1>2, ResolveDatabase DEF LiveDatabases
  <2> HIDE DEF d
  <2>2. /\ context' \in Contexts
        /\ context'.database_id = d
        /\ context'.database_name = name
    BY <1>2, <2>1 DEF IInv, TypeOK, Contexts
  <2>3. /\ result' \in Results
        /\ result'.kind = "USE"
        /\ result'.collection = NONE
    BY <1>2, <2>1 DEF Bound, Results, Kinds
  <2>4. TypeOK'
    BY <1>2, <2>2, <2>3 DEF IInv, TypeOK
  <2>5. QED
    BY <2>1, <2>2, <2>3, <2>4 DEF IInv, RefsInScope, InsertComplete, InCurrentDatabase,
                                  IsBound, StatementKinds, NameMatchesId
<1>3. QED
  BY <1>1, <1>2 DEF BindUse

LEMMA NewBinderPreserves ==
  ASSUME IInv, NewBinder
  PROVE  IInv'
<1>1. TypeOK'
  BY DEF NewBinder, IInv, TypeOK, Contexts, EmptyContext, Results, NotBound, Kinds
<1>2. /\ result'.status = "none"
      /\ result'.collection = NONE
      /\ context'.database_id = NONE
  BY DEF NewBinder, NotBound, EmptyContext
<1>3. QED
  BY <1>1, <1>2 DEF IInv, RefsInScope, InsertComplete, InCurrentDatabase, IsBound, NameMatchesId

(* What other sessions do to the catalog disturbs the type invariant only. *)
LEMMA OtherSessionsPreserve ==
  ASSUME IInv, OtherSessions
  PROVE  IInv'
<1>1. UNCHANGED <<context, result>>
  BY DEF OtherSessions, CreateDatabase, DropDatabase, CreateCollection, DropCollection
<1>2. TypeOK'
  <2>1. /\ catalog.databases \in [DatabaseIds -> Phases]
        /\ catalog.collections \in [CollectionIds -> Phases]
        /\ catalog = [databases |-> catalog.databases, collections |-> catalog.collections]
    BY DEF IInv, TypeOK
  <2>2. ASSUME NEW d \in DatabaseIds, CreateDatabase(d) PROVE TypeOK'
    BY <1>1, <2>1, <2>2 DEF CreateDatabase, IInv, TypeOK, Phases
  <2>3. ASSUME NEW d \in DatabaseIds, DropDatabase(d) PROVE TypeOK'
    BY <1>1, <2>1, <2>3 DEF DropDatabase, IInv, TypeOK, Phases
  <2>4. ASSUME NEW c \in CollectionIds, CreateCollection(c) PROVE TypeOK'
    BY <1>1, <2>1, <2>4 DEF CreateCollection, IInv, TypeOK, Phases
  <2>5. ASSUME NEW c \in CollectionIds, DropCollection(c) PROVE TypeOK'
    BY <1>1, <2>1, <2>5 DEF DropCollection, IInv, TypeOK, Phases
  <2>6. QED
    BY <2>2, <2>3, <2>4, <2>5 DEF OtherSessions
<1>3. QED
  BY <1>1, <1>2 DEF IInv, RefsInScope, InsertComplete, InCurrentDatabase, IsBound,
                    NameMatchesId, NotNull

-----------------------------------------------------------------------------
LEMMA BindDataPreserves ==
  ASSUME IInv, BindData
  PROVE  IInv'
<1> PICK name \in CollectionNames :
      \/ \E star \in BOOLEAN, e \in Exprs, where \in Wheres :
           BindSelect(name, star, {e} \cup Optional(where))
      \/ \E where \in Wheres : BindDelete(name, where)
      \/ \E targets \in Lists(ColumnNames) \ {<<>>}, where \in Wheres :
           \E values \in [DOMAIN targets -> Exprs] :
             BindUpdate(name, targets, values, where)
      \/ \E names \in Lists(ColumnNames), values \in Lists(Exprs) \ {<<>>} :
           BindInsert(name, names, values)
  BY DEF BindData
<1>1. ASSUME NEW star \in BOOLEAN, NEW e \in Exprs, NEW where \in Wheres,
             BindSelect(name, star, {e} \cup Optional(where))
      PROVE  IInv'
  <2>1. {e} \cup Optional(where) \in SUBSET Exprs
    BY OptionalExprs
  <2>2. QED
    BY <1>1, <2>1, BindSelectPreserves
<1>2. QED
  BY <1>1, BindDeletePreserves, BindUpdatePreserves, BindInsertPreserves

LEMMA BindAlterOrCreatePreserves ==
  ASSUME IInv, BindAlterOrCreate
  PROVE  IInv'
<1>1. CASE BindCreateDatabase
  BY <1>1, DatabaseOnlyPreserves DEF BindCreateDatabase, Kinds, StatementKinds
<1>2. ASSUME NEW def1 \in ColumnDefs, NEW def2 \in ColumnDefs,
             BindCreateCollection({def1, def2})
      PROVE  IInv'
  <2>1. {def1, def2} \in SUBSET ColumnDefs
    OBVIOUS
  <2>2. QED
    BY <1>2, <2>1, BindCreateCollectionPreserves
<1>3. QED
  BY <1>1, <1>2, BindAlterAddColumnPreserves, BindAlterModifyColumnPreserves,
     BindAlterColumnPreserves, BindCreateIndexPreserves, BindCreateVIndexPreserves
     DEF BindAlterOrCreate

LEMMA BindOtherPreserves ==
  ASSUME IInv, BindOther
  PROVE  IInv'
<1>1. CASE BindShowDatabases
  BY <1>1, DatabaseOnlyPreserves DEF BindShowDatabases, Kinds, StatementKinds
<1>2. QED
  BY <1>1, BindDescribePreserves, BindDropDatabasePreserves, BindDropCollectionPreserves,
     BindDropNamedPreserves, BindShowCollectionsPreserves, BindShowIndexesPreserves,
     BindUsePreserves
     DEF BindOther

LEMMA InitEstablishes == Init => IInv
<1> SUFFICES ASSUME Init PROVE IInv
  OBVIOUS
<1>1. TypeOK
  BY DEF Init, TypeOK, Contexts, EmptyContext, Results, NotBound, Kinds, Phases
<1>2. QED
  BY <1>1 DEF Init, NotBound, EmptyContext, IInv, RefsInScope, InsertComplete,
              InCurrentDatabase, IsBound, NameMatchesId

LEMMA NextPreserves == IInv /\ [Next]_vars => IInv'
<1> SUFFICES ASSUME IInv, [Next]_vars PROVE IInv'
  OBVIOUS
<1>1. CASE UNCHANGED vars
  BY <1>1 DEF vars, IInv, TypeOK, RefsInScope, InsertComplete, InCurrentDatabase, IsBound,
              NameMatchesId, NotNull
<1>2. QED
  BY <1>1, BindDataPreserves, BindAlterOrCreatePreserves, BindOtherPreserves,
     NewBinderPreserves, OtherSessionsPreserve DEF Next

LEMMA Invariance == Spec => []IInv
BY InitEstablishes, NextPreserves, PTL DEF Spec

(* The catalog, the context and the result keep their types.               *)
THEOREM TypeCorrect == Spec => []TypeOK
<1>1. IInv => TypeOK
  BY DEF IInv
<1>2. QED
  BY <1>1, Invariance, PTL

(* References of bound statements are in scope, whatever was bound before, *)
(* failed before or was dropped meanwhile (bind_expression).               *)
THEOREM ReferencesInScope == Spec => []RefsInScope
<1>1. IInv => RefsInScope
  BY DEF IInv
<1>2. QED
  BY <1>1, Invariance, PTL

(* Bound INSERTs are complete, for tables and value lists of any length    *)
(* (bind_insert_statement).                                                *)
THEOREM InsertsComplete == Spec => []InsertComplete
<1>1. IInv => InsertComplete
  BY DEF IInv
<1>2. QED
  BY <1>1, Invariance, PTL

(* Statements bind in the database chosen by the last USE.                 *)
THEOREM StatementsInCurrentDatabase == Spec => []InCurrentDatabase
<1>1. IInv => InCurrentDatabase
  BY DEF IInv
<1>2. QED
  BY <1>1, Invariance, PTL

-----------------------------------------------------------------------------
(* What a step does to the collection of the context.                      *)
KeepsCollection == context'.collection_id # context.collection_id => result'.status # "bound"

LEMMA ThrowsKeep == ASSUME NEW kind, Throw(kind) PROVE KeepsCollection
BY DEF Throw, Return, NotBound, KeepsCollection

LEMMA ThrowsInsideKeep ==
  ASSUME NEW kind, NEW c, ThrowInside(kind, c) PROVE KeepsCollection
BY DEF ThrowInside, NotBound, KeepsCollection

LEMMA ReturnsKeep == ASSUME NEW bound, Return(bound) PROVE KeepsCollection
BY DEF Return, KeepsCollection

LEMMA RestoredReturnsKeep == ASSUME NEW bound, ReturnRestored(bound) PROVE KeepsCollection
BY DEF ReturnRestored, KeepsCollection

LEMMA AltersKeep ==
  ASSUME NEW c, NEW ok, NEW items, NEW refs, BindAlter(c, ok, items, refs)
  PROVE  KeepsCollection
BY ThrowsKeep, ThrowsInsideKeep, RestoredReturnsKeep DEF BindAlter

LEMMA DataKeeps == ASSUME BindData PROVE KeepsCollection
<1>1. ASSUME NEW name, NEW star, NEW exprs, BindSelect(name, star, exprs)
      PROVE  KeepsCollection
  BY <1>1, ThrowsKeep, ThrowsInsideKeep, RestoredReturnsKeep DEF BindSelect
<1>2. ASSUME NEW name, NEW where, BindDelete(name, where)
      PROVE  KeepsCollection
  BY <1>2, ThrowsKeep, ThrowsInsideKeep, RestoredReturnsKeep DEF BindDelete
<1>3. ASSUME NEW name, NEW targets, NEW values, NEW where,
             BindUpdate(name, targets, values, where)
      PROVE  KeepsCollection
  BY <1>3, ThrowsKeep, ThrowsInsideKeep, RestoredReturnsKeep DEF BindUpdate
<1>4. ASSUME NEW name, NEW names, NEW values, BindInsert(name, names, values)
      PROVE  KeepsCollection
  BY <1>4, ThrowsKeep, ThrowsInsideKeep, RestoredReturnsKeep, ReturnsKeep DEF BindInsert
<1>5. QED
  BY <1>1, <1>2, <1>3, <1>4 DEF BindData

LEMMA AlterOrCreateKeeps == ASSUME BindAlterOrCreate PROVE KeepsCollection
<1>1. ASSUME NEW name, NEW def,
             BindAlterAddColumn(name, def) \/ BindAlterModifyColumn(name, def)
      PROVE  KeepsCollection
  BY <1>1, AltersKeep DEF BindAlterAddColumn, BindAlterModifyColumn
<1>2. ASSUME NEW name, NEW column, BindAlterColumn(name, column)
      PROVE  KeepsCollection
  BY <1>2, AltersKeep DEF BindAlterColumn
<1>3. CASE BindCreateDatabase
  BY <1>3, ReturnsKeep DEF BindCreateDatabase
<1>4. ASSUME NEW defs, BindCreateCollection(defs)
      PROVE  KeepsCollection
  BY <1>4, ThrowsKeep, ReturnsKeep DEF BindCreateCollection
<1>5. ASSUME NEW name, NEW columns, NEW typeOk, BindCreateIndex(name, columns, typeOk)
      PROVE  KeepsCollection
  BY <1>5, ThrowsKeep, ReturnsKeep DEF BindCreateIndex
<1>6. ASSUME NEW name, NEW column, NEW type, NEW options,
             BindCreateVIndex(name, column, type, options)
      PROVE  KeepsCollection
  BY <1>6, ThrowsKeep, ReturnsKeep DEF BindCreateVIndex
<1>7. QED
  BY <1>1, <1>2, <1>3, <1>4, <1>5, <1>6 DEF BindAlterOrCreate

LEMMA OtherKeeps == ASSUME TypeOK, BindOther PROVE KeepsCollection
<1>1. ASSUME NEW name, BindDescribe(name) PROVE KeepsCollection
  BY <1>1, ThrowsKeep, ReturnsKeep DEF BindDescribe
<1>2. ASSUME NEW name, NEW ifExists,
             BindDropDatabase(name, ifExists) \/ BindDropCollection(name, ifExists)
      PROVE  KeepsCollection
  BY <1>2, ThrowsKeep, ReturnsKeep DEF BindDropDatabase, BindDropCollection
<1>3. ASSUME NEW kind, NEW indexes, NEW name, NEW index, NEW ifExists,
             BindDropNamed(kind, indexes, name, index, ifExists)
      PROVE  KeepsCollection
  BY <1>3, ThrowsKeep, ReturnsKeep DEF BindDropNamed
<1>4. CASE BindShowDatabases
  BY <1>4, ReturnsKeep DEF BindShowDatabases
<1>5. ASSUME NEW database, BindShowCollections(database) PROVE KeepsCollection
  BY <1>5, ThrowsKeep, ReturnsKeep DEF BindShowCollections
<1>6. ASSUME NEW kind, NEW database, NEW name, BindShowIndexes(kind, database, name)
      PROVE  KeepsCollection
  BY <1>6, ThrowsKeep, ReturnsKeep DEF BindShowIndexes
<1>7. ASSUME NEW name, BindUse(name) PROVE KeepsCollection
  BY <1>7, ThrowsKeep DEF BindUse, KeepsCollection, TypeOK, Contexts
<1>8. QED
  BY <1>1, <1>2, <1>3, <1>4, <1>5, <1>6, <1>7 DEF BindOther

(* A statement that binds puts the collection of the context back: only an *)
(* exception or a new binder moves it ("old_collection_id", every bind_*   *)
(* function that sets context_.current_collection_id).                     *)
THEOREM OnlyFailuresMove == Spec => OnlyFailuresMoveCollection
<1>1. ASSUME TypeOK, [Next]_vars
      PROVE  [KeepsCollection]_vars
  <2>1. CASE NewBinder
    BY <2>1 DEF NewBinder, NotBound, KeepsCollection
  <2>2. CASE OtherSessions
    BY <2>2 DEF OtherSessions, CreateDatabase, DropDatabase, CreateCollection,
                DropCollection, KeepsCollection
  <2>3. QED
    BY <1>1, <2>1, <2>2, DataKeeps, AlterOrCreateKeeps, OtherKeeps DEF Next
<1>2. TypeOK /\ [Next]_vars =>
        [context'.collection_id # context.collection_id => result'.status # "bound"]_vars
  BY <1>1 DEF KeepsCollection
<1>3. QED
  BY <1>2, TypeCorrect, PTL DEF Spec, OnlyFailuresMoveCollection

-----------------------------------------------------------------------------
(* What a statement that binds resolves to.                                *)
ToLive ==
  result' # result /\ result'.status = "bound" =>
    /\ result'.collection # NONE => result'.collection \in LiveCollections
    /\ \A r \in result'.refs : r.collection \in LiveCollections

LEMMA ThrowsToLive ==
  ASSUME NEW kind, Throw(kind) \/ \E c : ThrowInside(kind, c)
  PROVE  ToLive
BY DEF Throw, ThrowInside, Return, NotBound, ToLive

LEMMA ReturnsToLive ==
  ASSUME NEW kind, NEW d, NEW c, NEW items, NEW refs,
         \/ Return(Bound(kind, d, c, items, refs))
         \/ ReturnRestored(Bound(kind, d, c, items, refs)),
         c # NONE => c \in LiveCollections,
         \A r \in refs : r.collection \in LiveCollections
  PROVE  ToLive
<1>1. result' = Bound(kind, d, c, items, refs)
  BY DEF Return, ReturnRestored
<1>2. result'.collection = c /\ result'.refs = refs
  BY <1>1 DEF Bound
<1> QED
  BY <1>2 DEF ToLive

LEMMA PlainReturnsToLive ==
  ASSUME NEW kind, NEW d, NEW c, NEW items, Return(Bound(kind, d, c, items, {})),
         c # NONE => c \in LiveCollections
  PROVE  ToLive
<1>1. \A r \in {} : r.collection \in LiveCollections
  OBVIOUS
<1> QED
  BY <1>1, ReturnsToLive

LEMMA NamedIsLive ==
  ASSUME NEW name, NamedCollection(name) # NONE
  PROVE  NamedCollection(name) \in LiveCollections
BY ResolveCollection DEF NamedCollection

LEMMA AllRefsLive ==
  ASSUME NEW exprs, NEW ctx, AllBind(exprs, ctx)
  PROVE  \A r \in AllRefs(exprs, ctx) : r.collection \in LiveCollections
<1>1. ASSUME NEW e \in exprs, NEW ref \in e.refs
      PROVE  RefCollection(ref, ctx) \in LiveCollections
  BY ResolveColumn DEF AllBind, Binds, RefBinds
<1> QED
  BY <1>1 DEF AllRefs, BoundRefsOf

LEMMA StatementsToLive ==
  ASSUME NEW kind, NEW name, NamedCollection(name) # NONE, NEW d, NEW items,
         NEW exprs, AllBind(exprs, NamedCollection(name)),
         ReturnRestored(Bound(kind, d, NamedCollection(name), items,
                              AllRefs(exprs, NamedCollection(name))))
  PROVE  ToLive
BY NamedIsLive, AllRefsLive, ReturnsToLive

LEMMA DataToLive == ASSUME BindData PROVE ToLive
<1>1. ASSUME NEW name, NEW star, NEW exprs, BindSelect(name, star, exprs) PROVE ToLive
  BY <1>1, ThrowsToLive, StatementsToLive DEF BindSelect
<1>2. ASSUME NEW name, NEW where, BindDelete(name, where) PROVE ToLive
  BY <1>2, ThrowsToLive, StatementsToLive DEF BindDelete
<1>3. ASSUME NEW name, NEW targets, NEW values, NEW where,
             BindUpdate(name, targets, values, where)
      PROVE  ToLive
  BY <1>3, ThrowsToLive, StatementsToLive DEF BindUpdate
<1>4. ASSUME NEW name, NEW names, NEW values, BindInsert(name, names, values) PROVE ToLive
  <2> DEFINE c == NamedCollection(name)
             items == InsertItems(c, names, values)
             exprs == {values[p[2]] : p \in items}
  <2>1. CASE Throw("INSERT") \/ ThrowInside("INSERT", c)
    BY <2>1, ThrowsToLive
  <2>2. CASE Return(NotBound("aborted", "INSERT"))
    BY <2>2 DEF Return, NotBound, ToLive
  <2>3. CASE /\ c # NONE /\ \A p \in items : ~Stops(p, values, c)
             /\ ReturnRestored(Bound("INSERT", context.database_id, c, items,
                                     AllRefs(exprs, c)))
    <3>1. AllBind(exprs, c)
      BY <2>3 DEF AllBind, Stops
    <3> QED
      BY <2>3, <3>1, StatementsToLive
  <2> QED
    BY <1>4, <2>1, <2>2, <2>3 DEF BindInsert
<1> QED
  BY <1>1, <1>2, <1>3, <1>4 DEF BindData

LEMMA AltersToLive ==
  ASSUME NEW name, NEW ok, NEW items, NEW refs,
         BindAlter(NamedCollection(name), ok, items, refs),
         ok => \A r \in refs : r.collection \in LiveCollections
  PROVE  ToLive
<1>1. CASE Throw("ALTER") \/ ThrowInside("ALTER", NamedCollection(name))
  BY <1>1, ThrowsToLive
<1>2. CASE /\ NamedCollection(name) # NONE /\ ok
           /\ ReturnRestored(Bound("ALTER", context.database_id, NamedCollection(name),
                                   items, refs))
  BY <1>2, NamedIsLive, ReturnsToLive
<1> QED
  BY <1>1, <1>2 DEF BindAlter

LEMMA DefRefsLive ==
  ASSUME NEW def, NEW ctx, DefBinds(def, ctx)
  PROVE  \A r \in DefRefs(def, ctx) : r.collection \in LiveCollections
BY AllRefsLive DEF DefBinds, DefRefs

LEMMA AlterOrCreateToLive == ASSUME BindAlterOrCreate PROVE ToLive
<1>1. ASSUME NEW name, NEW def, BindAlterAddColumn(name, def) PROVE ToLive
  BY <1>1, AltersToLive, DefRefsLive DEF BindAlterAddColumn
<1>2. ASSUME NEW name, NEW def, BindAlterModifyColumn(name, def) PROVE ToLive
  BY <1>2, AltersToLive, DefRefsLive DEF BindAlterModifyColumn
<1>3. ASSUME NEW name, NEW column, BindAlterColumn(name, column) PROVE ToLive
  BY <1>3, AltersToLive DEF BindAlterColumn
<1>4. CASE BindCreateDatabase
  BY <1>4, PlainReturnsToLive DEF BindCreateDatabase
<1>5. ASSUME NEW defs, BindCreateCollection(defs) PROVE ToLive
  <2> DEFINE ctx == context.collection_id
             refs == UNION {DefRefs(def, ctx) : def \in defs}
  <2>1. CASE Throw("CREATE COLLECTION")
    BY <2>1, ThrowsToLive
  <2>2. CASE /\ \A def \in defs : DefBinds(def, ctx)
             /\ Return(Bound("CREATE COLLECTION", NONE, NONE, {}, refs))
    <3>1. \A r \in refs : r.collection \in LiveCollections
      BY <2>2, DefRefsLive
    <3> QED
      BY <2>2, <3>1, ReturnsToLive
  <2> QED
    BY <1>5, <2>1, <2>2 DEF BindCreateCollection
<1>6. ASSUME NEW name, NEW columns, NEW typeOk, BindCreateIndex(name, columns, typeOk)
      PROVE  ToLive
  BY <1>6, ThrowsToLive, PlainReturnsToLive, NamedIsLive DEF BindCreateIndex
<1>7. ASSUME NEW name, NEW column, NEW type, NEW options,
             BindCreateVIndex(name, column, type, options)
      PROVE  ToLive
  BY <1>7, ThrowsToLive, PlainReturnsToLive, NamedIsLive DEF BindCreateVIndex
<1> QED
  BY <1>1, <1>2, <1>3, <1>4, <1>5, <1>6, <1>7 DEF BindAlterOrCreate

LEMMA OtherToLive == ASSUME BindOther PROVE ToLive
<1>1. ASSUME NEW name, BindDescribe(name) PROVE ToLive
  BY <1>1, ThrowsToLive, PlainReturnsToLive, NamedIsLive DEF BindDescribe
<1>2. ASSUME NEW name, NEW ifExists, BindDropDatabase(name, ifExists) PROVE ToLive
  BY <1>2, ThrowsToLive, PlainReturnsToLive DEF BindDropDatabase
<1>3. ASSUME NEW name, NEW ifExists, BindDropCollection(name, ifExists) PROVE ToLive
  BY <1>3, ThrowsToLive, PlainReturnsToLive, NamedIsLive DEF BindDropCollection
<1>4. ASSUME NEW kind, NEW indexes, NEW name, NEW index, NEW ifExists,
             BindDropNamed(kind, indexes, name, index, ifExists)
      PROVE  ToLive
  BY <1>4, ThrowsToLive, PlainReturnsToLive, NamedIsLive DEF BindDropNamed
<1>5. CASE BindShowDatabases
  BY <1>5, PlainReturnsToLive DEF BindShowDatabases
<1>6. ASSUME NEW database, BindShowCollections(database) PROVE ToLive
  BY <1>6, ThrowsToLive, PlainReturnsToLive DEF BindShowCollections
<1>7. ASSUME NEW kind, NEW database, NEW name, BindShowIndexes(kind, database, name)
      PROVE  ToLive
  BY <1>7, ThrowsToLive, PlainReturnsToLive, ResolveCollection DEF BindShowIndexes
<1>8. ASSUME NEW name, BindUse(name) PROVE ToLive
  <2>1. CASE Throw("USE")
    BY <2>1, ThrowsToLive
  <2>2. CASE result' = Bound("USE", resolve_database(name), NONE, {}, {})
    BY <2>2 DEF Bound, ToLive
  <2> QED
    BY <1>8, <2>1, <2>2 DEF BindUse
<1> QED
  BY <1>1, <1>2, <1>3, <1>4, <1>5, <1>6, <1>7, <1>8 DEF BindOther

(* For every catalog and every history of drops by other sessions: what a  *)
(* statement binds to exists when it binds, whatever ids of dropped        *)
(* databases and collections are left in the context.                      *)
THEOREM BindingNeverResurrects == Spec => BindsLive
<1>1. ASSUME [Next]_vars PROVE [ToLive]_vars
  <2>1. CASE NewBinder
    BY <2>1 DEF NewBinder, NotBound, ToLive
  <2>2. CASE OtherSessions
    BY <2>2 DEF OtherSessions, CreateDatabase, DropDatabase, CreateCollection,
                DropCollection, ToLive
  <2> QED
    BY <1>1, <2>1, <2>2, DataToLive, AlterOrCreateToLive, OtherToLive DEF Next
<1>2. [Next]_vars =>
        [ result' # result /\ result'.status = "bound" =>
            /\ result'.collection # NONE => result'.collection \in LiveCollections
            /\ \A r \in result'.refs : r.collection \in LiveCollections ]_vars
  BY <1>1 DEF ToLive
<1> QED
  BY <1>2, PTL DEF Spec, BindsLive
=============================================================================
