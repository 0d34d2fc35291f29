------------------------------ MODULE KeyedIds ------------------------------
(***************************************************************************)
(* What an index promises, without its entries: how often each id is       *)
(* listed under each key.  An operation on a key acts on one key the index *)
(* holds and takes for the same: the key itself, or one that compares      *)
(* equal to it, as NULL does to every value.  BTreeIndex and HashIndex     *)
(* implement it (see Index).                                               *)
(***************************************************************************)
EXTENDS Naturals

CONSTANTS
  Keys,     \* the keys
  Ids,      \* the ids of entities
  Same,     \* Same[kind]: the pairs of keys an index of the kind takes for one
  Erring    \* the kinds of index that may miss a key they hold

VARIABLES
  kind,     \* the kind of the index
  unique,   \* whether it is unique
  listed,   \* listed[k, i]: how often id i is listed under key k
  answer    \* what the last operation was, and whether it returned true

vars == <<kind, unique, listed, answer>>

Answer(op, keys, id, ok) == [op |-> op, keys |-> keys, id |-> id, ok |-> ok]
Outcome(ok, l) == [ok |-> ok, listed |-> l]

Relisted(l, key, id, n) == [p \in Keys \X Ids |-> IF p = <<key, id>> THEN n ELSE l[p]]

Present(l, key) == \E i \in Ids : l[<<key, i>>] > 0

(* The keys held that are taken for the key, and whether a search may come *)
(* upon none of them.                                                      *)
Matching(l, key) == {k \in Keys : Present(l, k) /\ <<k, key>> \in Same[kind]}
Misses(l, key) == kind \in Erring \/ Matching(l, key) = {}

(* The id is listed once more under the key or one taken for it; a unique  *)
(* index that comes upon one refuses.                                      *)
Inserts(l, key, id) ==
  {Outcome(FALSE, l) : k \in {m \in Matching(l, key) : unique}}
  \cup {Outcome(TRUE, Relisted(l, k, id, l[<<k, id>>] + 1)) :
          k \in {m \in Matching(l, key) : ~unique \/ Misses(l, key)}
                \cup {m \in {key} : Misses(l, key)}}

(* The id is no longer listed under the key or one taken for it; an index  *)
(* that errs may leave some of its listings.                               *)
Staying(l, key, id) == IF kind \in Erring THEN 0..l[<<key, id>>] ELSE {0}
Removes(l, key, id) ==
  {Outcome(FALSE, m) : m \in {n \in {l} : Misses(l, key)}}
  \cup UNION {{Outcome(TRUE, Relisted(l, k, id, n)) : n \in Staying(l, k, id)} :
                k \in Matching(l, key)}

(* An update whose insertion fails has removed the id all the same.        *)
Updates(l, old, new, id) ==
  UNION {IF r.ok THEN Inserts(r.listed, new, id) ELSE {r} : r \in Removes(l, old, id)}

Init ==
  /\ kind \in DOMAIN Same /\ unique \in BOOLEAN
  /\ listed = [p \in Keys \X Ids |-> 0]
  /\ answer = [op |-> "none"]

Do(op, keys, id, outcomes) ==
  /\ \E ok \in BOOLEAN :
       /\ answer' = Answer(op, keys, id, ok)
       /\ Outcome(ok, listed') \in outcomes
  /\ UNCHANGED <<kind, unique>>

Insert(key, id) == Do("insert", <<key>>, id, Inserts(listed, key, id))
Remove(key, id) == Do("remove", <<key>>, id, Removes(listed, key, id))
Update(old, new, id) == Do("update", <<old, new>>, id, Updates(listed, old, new, id))

Next ==
  \E id \in Ids, key \in Keys :
    \/ Insert(key, id)
    \/ Remove(key, id)
    \/ \E new \in Keys : Update(key, new, id)

Spec == Init /\ [][Next]_vars

=============================================================================
