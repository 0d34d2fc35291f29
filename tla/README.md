# DreamDB in TLA+

A TLA+ development of DreamDB, a vector database with an SQL front end written
in C++20 (`src/`). The modules are translated from the code; TLC checks them on
small instances (the `MC*.tla` modules and `*.cfg` files), and TLAPS proves the
theorems of the modules `*Proofs` for every instance. `PROJECT.json` lists the
components, the runs, the mutants (a plausible bug for each property, which the
run must find), the lines each definition models, the findings, the hazards and
the theorems.

## 1. The system

A statement travels through these parts:

    Client  --packet-->  Session (Server)  --sql-->  Parser --AST--> Binder
      ^                                                                 |
      |                                                        bound statement
      +--packet--  Session  <--MutationResult--  Executor <-- Dispatcher
                                                    |     (planners for SELECT,
                          Catalog, DatabaseManager,-+      UPDATE and DELETE)
                          Collection (rows, indexes)

The repository is in the middle of a rewrite. CMake builds the new layer:
`parser`, `binder` and `planner/logical`, with unit tests that mock the catalog
through its interface (`catalog/catalog_reader.h`). The older layer (server,
client, protocol, dispatcher, executor, catalog entries, schema, index,
storage, evaluator, physical planner) is complete code, but some of its headers
have been moved or removed (`common/decimal.h`, for example). Both are modelled
as written. Where they meet, each keeps its own interface: the new binder talks
to an abstract catalog, the old executor to the old one.

| Component | State | Operations | Hard behaviour | Correct when |
|---|---|---|---|---|
| Binder (`binder/binder.cpp`) | the context: current database, collection in scope | `bind`, one handler per statement, `bind_expression` | handlers set the collection and put it back, but not when they throw; the catalog changes under the context | references resolve in the right scope, an INSERT is complete, nothing dropped is bound |
| Catalog interface | databases, collections, columns | `resolve_*`, `get_columns` | changed by other sessions | (external to the repository) |
| Index keys, BTREE and HASH indexes (`index/`) | a map from keys to lists of ids | `insert`, `remove`, `update`, six searches | values of different types compare equal; `update` is two steps; bounds of ranges | a multimap from keys to ids; searches exact |
| IndexManager | indexes by name | register, unregister, dispatch by name and kind | the wrong kind, or a missing index, returns false | |
| Collection with its segment and storage (`schema/collection.cpp`, `storage/`) | rows, index metadata, field map, indexes | `insert`, `remove`, `update`, `create_index`, `remove_index`, `update_indexes_on_*` | roll back of `create_index`; exceptions in the middle; the first index that refuses ends the loop | the three tables agree; an index lists the rows |
| Client, Session, Server, Codec (`client/`, `server/`, `protocol/`) | receive buffers, sockets, the request id | `connect`, `execute`, `async_read_some`, `process_buffer`, `try_decode_one` | packets split anywhere; one thread writes synchronously; exceptions of the decoder; restarts | a response answers its request; each is executed once; calls end |
| Dispatcher, Executor (`dispatcher/`, `executor/`) | the database manager | one `execute_*` per statement, one per node of a plan | several steps on catalog, databases and collections, any of which may fail; ids taken for positions | what fails takes nothing away; catalog and collections agree; a column name leads to its field |
| Catalog entries, managers (`catalog/`, `schema/*_manager.cpp`) | vectors of entries, maps from names to positions | add, remove, modify, rename | positions after a removal, names after a rename | the map finds the entry of that name |
| Logical and physical planner (`planner/`) | none | `plan` | the columns of nine clauses, collected twice by different code | a scan reads what the operators use; both plans are the same |
| Parser (`parser/parser.cpp`) | position in the tokens | recursive descent, one function per statement and level of precedence | one cursor shared by clauses, lists and levels; NOT that begins two things; empty lists | the tree holds all that was written, grouped by precedence |
| Lexer (`parser/lexer.cpp`) | position in the text, line and column, one token read ahead | `next`, `peek` | going back over an exponent that is none, escapes, ends of lines | longest lexemes, none lost or repeated, true positions |
| AST debug printer (`parser/ast/debug/`) | the text so far | `format` | parentheses | the text parses back |
| Evaluator, functions (`evaluator/`, `function/`) | none | `evaluate`, `evaluate_condition` | values of different types, compared as doubles or as 64-bit integers | one order, which agrees with equality |
| Bound statements, syntax trees, values, timestamps | data | accessors | | |

## 2. Modules

| Module | What it is | Source |
|---|---|---|
| `Binder` | the binder, and the sessions that change the catalog beside it | `binder/binder.cpp` |
| `BinderProofs` | theorems about `Binder` | |
| `IndexOps` | keys and index operations, as operators | `index/index_key.cpp`, `b_tree_index.cpp`, `hash_index.cpp` |
| `IndexOpsProofs` | lemmas about `IndexOps` and lists of ids | |
| `KeyedIds` | the abstract index: how often an id is listed under a key | |
| `Index` | one index and its life; implements `KeyedIds` | `index/` |
| `IndexProofs` | theorems about `Index` | |
| `Collection` | rows, index metadata and indexes of a collection; uses `IndexOps` | `schema/collection.cpp`, `storage/`, `index/index_manager.cpp` |
| `CollectionProofs` | theorems about `Collection` | |
| `Codec` | framing of packets, as operators | `protocol/codec.cpp` |
| `Rpc` | the abstract remote call: at most once, the right response | |
| `Protocol` | clients, sessions, connections and the server's thread; implements `Rpc` | `client/`, `server/` |
| `ProtocolProofs` | theorems about `Protocol` | |
| `Parser` | the recursive descent, as operators on a cursor | `parser/parser.cpp` |
| `Formatter` | the debug printer, as operators on trees; extends `Parser` | `parser/ast/debug/` |
| `Sentences` | texts written token by token, each prefix parsed | |
| `Statements` | trees that grow, printed and parsed again | |
| `Lexer` | the lexer: a cursor in a text and a token read ahead | `parser/lexer.cpp` |
| `CatalogOps` | the entries of the catalog, as operators | `catalog/` |
| `CatalogEntries` | the catalog under any calls of its interface | `catalog/` |
| `CatalogProofs` | theorems about `CatalogEntries` | |
| `Executor` | the statements, on the catalog and the databases; uses `CatalogOps` | `executor/executor.cpp`, `schema/*_manager.cpp` |
| `ExecutorProofs` | theorems about `Executor` | |
| `Comparisons` | how two values compare | `evaluator/evaluator.cpp` |
| `Expressions` | trees of expressions: cloned, searched for columns, copied, evaluated; extends `Comparisons` | `binder/bound/expression/`, `evaluator/` |
| `Plans` | both planners, and the executor on a plan; extends `Expressions` | `planner/`, `executor/executor.cpp` |
| `Queries` | from a bound SELECT, UPDATE or DELETE to its answer; extends `Plans` | `dispatcher/`, `planner/`, `executor/` |
| `QueryProofs` | theorems about `Comparisons`, `Queries` and `Lexer` | |

### Binder

`context` is `Binder::context_`, `result` what the last `bind` returned (with
the columns and references it resolved) or threw, `catalog` which databases and
collections exist. Each `Bind...` action is a whole handler. A handler that
sets `current_collection_id` ends in one of two ways: `ReturnRestored`, or
`ThrowInside`, which leaves the collection in the context, as the exceptions of
the code do. An expression is the set of its column references and whether
something else in it throws (an unknown function, a vector of non-constants);
a column definition likewise. Value lists keep their length and order, since
the INSERT handler counts them. `value_at` asserts that its index is in range:
the model stops there (`"aborted"`) until there is a new binder. Other sessions
(`CreateDatabase`, `DropCollection`, ...) change the catalog between
statements; ids are not reused.

### Indexes

`IndexOps` gives each operation as the set of its possible outcomes. `Less` is
`IndexKey::compare`, which finds values of different types equal. With such
keys the comparison is no order, and what a `std::map` does depends on the
shape of its tree and on whether the library looks for the place of a new key
as `lower_bound` or `upper_bound` does; `LowerBounds` and `UpperBounds` are the
places where a descent of any tree can end. There is one of each if the keys are
`Sortable`: NULL may stand beside values in their last field, and in the fields
before all values are of one type. So an index on one nullable column is sortable,
and two keys that differ in NULL and a value there are one key to it. With NULL in
front of the last field keys can compare in a cycle, and a tree may miss a key that
it holds. `KeyedIds` says for both what an operation does: it acts on a key
that compares equal, `Same`; and it may act on none although there is one only where
the index is `Erring`, that is, a tree of keys that are not sortable. A hash index
has `equals` and `hash` of keys, with which NULL equals the values whose hash is 0.
A floating-point NaN, which compares equal to every number, would be a type of
its own here.

`Index` inserts, removes and updates in any order. `Collection` adds the rows
and the metadata. Its operations are those of `schema/collection.cpp`: rows and
indexes are brought up to date by separate calls, in whatever order the caller
likes, so the model lets it. The lists of indexes it passes are those that the
three `*_metadata` functions return, in any order an `unordered_map` may have.

### Protocol

A connection is two streams of units of bounded `Capacity`; a read takes any
number of units that have arrived, a write leaves as many as there is room for.
A packet is three units, two of them the header, so that headers and bodies are
split. `Process` is one turn of the loop in `process_buffer`; while the server
is `busy` with a session, nothing else runs on its single thread. An exception
of `try_decode_one` is caught nowhere in the session and ends `io_context.run()`,
and with it the process (`examples/server_demo.cpp` returns from `main`).
The handler may throw, and a response may be too long, unreadable or
impossible to serialize (size 0: `send_response` logs that and goes on).

### Parser

A cursor is a record: the tokens that are left, a stack of the results of the
calls that have not returned, and whether the call to `parse()` is still going
on. A parse function is an operator from cursor to cursor that leaves its
result on top of the stack; after an exception or a failed assertion every
operator leaves the cursor as it is, which is what unwinding does. A tree is a
tuple that begins with the name of its node. The lexer is abstract: keywords
and symbols are tokens of their own type, and constants say which other lexemes
are identifiers, strings or numbers, and which numbers `stoll`, `stoull` and
`stod` accept. Lines and columns are left out.

`Sentences` is the user at a prompt. A text is extended only while it is the
beginning of a statement, that is, accepted or refused at its end: a
recursive-descent parser that fails at an earlier token fails there whatever
follows. The texts reached are therefore all beginnings of statements over a
topic's vocabulary, up to its length, and all ways to go wrong at the next
token. `Statements` starts at the other end, from the trees: an expression grows
an operator at a time and is put into every place of every statement. Left out
of its trees are those the printer cannot write: CREATE VINDEX (printed with
`collection.column`), BETWEEN (which never parses), IN and LIKE as operands of
an operator that binds tighter than AND (printed without parentheses), DEFAULT
before NOT NULL, and strings with quotes. Doubles are printed with `oss_ << val`
(`expression_formatter.cpp:62`), which keeps six digits and writes `1.0` as `1`:
`PrintedAs` says which number each double is printed as, which for a whole one is an
integer. `ParsesBack` says that a statement with such a double still parses and
is printed the same again, and that every other statement comes back as it was.

The operators are written so that each names its argument once (`ComparisonRest`,
`ColumnChange`, `Apply`): TLC unfolds definitions when it collects coverage, and a
cursor named twice at each of ten levels would be unfolded a thousand times.

### Lexer

`text` is `input_`, `cursor` its position, line and column, `peeked` the token
that `peek` read ahead. Characters are one-letter strings; the classes hold as
many of them as the rules tell apart, so one operator or letter stands for the
others of its kind. A `read_*` function is an operator from a cursor to a token
and the cursor behind it. Besides what the code keeps in a token, the model says
which characters it was made of; the properties compare that with a definition
of what a lexeme looks like, which knows nothing of reading.

The loops of the code (`While`, and the one in `ReadString`) are recursive functions with
as many steps as the text has characters; that a loop ends within those is proved, not
assumed. `LexerSpec` and its parts have names of their own, because `QueryProofs` extends
both this module and `Queries`.

### Catalog

Databases, collections and columns are kept in the same way, three times over:
a vector of entries and a map from names to positions in it, a *directory* in
`CatalogOps`. `remove_*` takes an entry out of the vector and its name out of
the map, and leaves the positions of the entries behind it; `rename_*` and
`modify_column` change one of the two names. Names then lead to a neighbour, or
past the end of the vector, where a lookup finds nothing, and a removal is
undefined: the process crashes or does what the library's loop does. Every call
of `CatalogEntries` on an entry is possible at every position, as a caller may
hold a pointer to any.

### Executor

`catalog` is a directory, `databases` the map of the database manager; a
collection here is its schema, the ids of its rows, the next id and what its
indexes list (`Collection` has the rest). Each `execute_*` is an action whose
disjuncts are its ways to end, in the order of the code; `answer` says how. What
is not in the code at all, the model leaves open:

- Nothing sets `database_id_`, `database_name_`, `collection_id_` and
  `collection_name_` of the entries, which are public. A new entry has any id,
  and its own name is empty or right. Most properties about these are stated
  for entries that are filled as the executor needs them (`Filled`).
- The ids in a statement come from the binder, which resolves names in another
  catalog: any id may come. A column comes by name and is resolved to the index
  stored in its entry, as `Catalog::resolve_column` does.
- IF [NOT] EXISTS is there or not.

The lookup of a collection goes through names twice (`Located`), so that entries
out of place change which collection a statement finds.

### Planners, executor of plans, evaluator

An expression is a record with a kind, parts and payloads, out of a constant set
`Trees` that has the parts of each as well. `Height` says that they are finite. A
function of the code that calls itself is a recursive function on `Trees`, so that
`QueryProofs` can reason about it. The assumption on `Trees` is what the classes of bound
expressions hold: a column reference or a constant has a payload and no parts, a
binary expression two parts. A target of an UPDATE is a column reference; the logical
planner throws at any other, before it has a plan, and the binder makes no other.
Every operator has one child at most, so that a plan is a sequence of operators from
the scan up.
`Queries` takes a statement through `Plan`, `PlanPhysically` and the executor,
or a condition to the evaluator. The physical planner reads node classes whose
headers are no longer in the repository; it is composed with the logical
planner as if they held what it reads from them. The executor's filter has no
collection to evaluate with and lets every row pass, sort leaves the rows as
they are, aggregation has no rows, UPDATE and DELETE scan and then fail:
the model does the same.

`Comparisons` counts numbers in halves and says of the conversion to double
only that it keeps the order and what doubles hold; the proofs need no more.

## 3. Runs

| Run | Bounds | Question |
|---|---|---|
| `MCBinder` | two databases, each with a collection `t`; two columns; lists of up to 2; 4 expressions | are bound statements right, whatever came before? |
| `MCIndex` | 4 keys of two fields, NULL in the second of one, 2 ids, 3 listings | does the index implement `KeyedIds`, and are its searches exact? |
| `MCCollection` | one field, 3 values with NULL, 2 rows, 3 index definitions, updates of 2 assignments, an id listed once per index | do rows, metadata and indexes stay consistent? |
| `MCProtocol` | one client, 2 calls, 2 connections, 2 units per stream; requests and responses that fit or not, responses that cannot be serialized | does the whole implement `Rpc`? |
| `MCProtocolLive` | two clients, one call and one connection each | does every call end? |
| `MCSentences` | 8 topics: an opening, 7 to 31 tokens to go on with, 6 to 11 of them | do accepted texts have the trees they should? |
| `MCSentencesBetween` | one topic | finding: BETWEEN never parses |
| `MCStatements` | one name, expressions of up to 6 printed tokens, all clauses; a double of each kind | does every printed tree parse back? |
| `MCLexer` | all texts of 2 of 20 characters, of 6 characters of numbers, of 5 of strings, of 4 with line breaks | is a text cut into its longest lexemes, at the right places? |
| `MCCatalog` | 3 names, 2 indexes, 4 entries in all | do the names lead to the entries, and the columns to their indexes? |
| `MCExecutor` | 2 databases, 2 collections, 3 column names, 1 index, 2 rows, 1 drop, 7 objects in all | what do failed statements leave, what makes catalog and collections differ? |
| `MCQueries` | 3 columns, every kind of expression in every clause, LIMIT and OFFSET up to 4, entities of 2 and 3 fields; 40 values of 10 types | are plans and answers right, and the comparisons coherent? |

What the properties say is written above each of them in the modules. Why the
bounds are enough:

- `MCBinder`: a stale context needs one earlier statement and one other
  database or collection of the same name; each exists once here and comes and
  goes. Lists of two give a column list longer, shorter and equal to the values,
  repetitions, and both counts INSERT accepts (collection 11 has a nullable
  column, 21 has none).
- `MCIndex`: four keys and two fields give a first difference in either field,
  a bound below, in and above the entries, ties on the first field, and a NULL that
  equals two keys which are not equal to each other. What an index still promises
  with NULL in front of the last field is proved (section 5), not run.
- `MCCollection`: two rows and two index names are enough for one index to
  refuse while the other has been changed. `MaxCount` bounds repeated inserts of
  one id, which add nothing to the tables. With one field every unique tree is on
  one field, as `UniqueListsOne` asks; section 4 has the case that it exempts.
  `answer` is left out of the view: no
  action reads it, and the properties about it are about single steps.
- `MCProtocol`: two calls and two connections give a call after a failed one,
  on the same connection and on a new one while the old session is still
  there; `Capacity` below the packet size makes both ends block. Two clients
  meet in `MCProtocolLive`.

- `MCSentences`: the lengths let every clause of SELECT follow every other, a
  condition mix three binary operators with NOT or a group, a column have three
  modifiers, and the longest statements about indexes end. One identifier is
  enough: the parser compares no names. `u` is a literal that fits 64 bits
  without a sign only, `huge` one that fits neither, `inf` a float that is out
  of range.
- `MCStatements`: six tokens are an operator inside an operator, in every
  position; the combinations of SELECT's clauses do not depend on the
  expressions in them. One double is printed as it is, one is whole, and one has more
  than six digits.
- `MCLexer`: six characters are a fraction with an exponent that turns out to
  be none; five of a string are an escaped line break with something before and
  behind it. The end of the text is returned twice at most.
- `MCCatalog`: three databases show a removal before others; below them the
  three classes have the same code, so two columns or collections are enough.
  Field lists name a field twice.
- `MCExecutor`: seven objects are two databases with a collection, or one
  collection with three columns and a vector index, each counted in the catalog
  and in the databases. One drop is enough for positions that no longer hold;
  rows, ids and answers are bounded because only their order matters. The
  answer is left out of the view except for a crash: no action reads it.
- `MCQueries`: values lie below, at and above the bound of exact doubles, scaled
  down: doubles hold whole numbers up to 16 exactly, and of those above the even
  ones only.

### Fairness

Only `MCProtocolLive` needs it. `FairSpec` makes a client that is in a call go
on (weak fairness: it is a blocking thread), and the server's thread go on with
what it is at. The reads of a session get strong fairness: they are disabled
while the thread serves another session, and `io_context` runs ready handlers in
turn, so none is passed over for ever. Connecting, calling, stopping and starting are the
users' and are not fair. `CallsEnd` holds when every response can be serialized
and fits `kMaxPacketSize`. Both conditions are needed: a response that cannot
be serialized is never sent, and the call waits for ever; and a client that
cannot decode a long response stops reading, the synchronous write of
`send_response` blocks when the connection is full, and with it every other
session (TLC shows both when `ResponseSizes` is widened).

## 4. Findings

`MCSentencesBetween` has a run of its own, which finds the property violated: the
manual's `WHERE price BETWEEN 100 AND 500` is refused, since the first bound is read
as a whole expression and takes the AND.

Other disagreements between what the code does and what a comment or message
says, met while modelling. Each can be read off the definition named:

- `BindCreateCollection`: the message of `bind_expression` says an unqualified
  column must be "used within a statement context
  (SELECT/UPDATE/DELETE/INSERT/ALTER)" (`binder.cpp:1534`). After a statement
  that failed while its collection was in the context, CREATE COLLECTION with an
  unqualified DEFAULT binds it against that collection.
- `BindInsert`: `INSERT INTO t (x, y) VALUES (1)` reaches the assertion in
  `value_at` ("the index must not be out of range", `ast/statement/insert.cpp:79`):
  neither the parser nor the binder compares the two lists.
- `Less`: the comment says values of different types are sorted by the type's
  name (`index_key.cpp:63`); the code finds them equal, so an id inserted under
  NULL is listed under an integer.
- `Inserts`: a unique tree refuses a key that is there, says the comment in `insert`
  (`b_tree_index.cpp:44`). On two fields with NULLs it may not. With (0, 2), (1, 0) and
  (NULL, 1) inserted in this order and (0, 2) removed, the root is (1, 0), with
  (NULL, 1) on its left. The search for (1, 0) goes left at the root, as `lower_bound`
  does at an equal key, ends at (NULL, 1), which (1, 0) is less than, and has found
  nothing: the `std::map` of GCC 12 inserts (1, 0) again, in front. A `std::map` that
  looks for the place as `upper_bound` does would append a second id to the entry at
  the root; `TreeEmplaces` has both outcomes. `UniqueListsOne` exempts such trees.
- `Answer` of `Protocol`: `message.proto:14` says a response has the id of the
  request it answers; the response to a request that cannot be read, or whose
  handler throws, has 0.
- `Removed`, `Renamed`, `Modified`: the maps are "column name -> position of the
  column" (`catalog_collection_entry.h:124`); after a removal or a change of a
  name they are not. `OnlyShiftsMisplace` says after which calls.
- `Unlisted`: DROP DATABASE takes the id for a position in the catalog
  (`database_manager.cpp:57`), and removes the entry there, whichever it is.
- `Accepts`: the comment in `execute_insert` says a column without a value is an
  error if it is "not nullable and has no default" (`executor.cpp:2134`); it is
  an error with a default too, and defaults are never stored.
- `RowValue`: the executor takes the field index of a column for its place in a
  row that the scan has narrowed (`executor.cpp:172`): values come from wrong
  places unless the scanned columns are the first ones.
- `Executed`: the manual says that only the records which satisfy WHERE are returned
  (`include/dreamdb/parser/README.md:872`); the filter never has a collection to
  evaluate with and lets every row pass (`executor.cpp:608`). Aggregates have no rows
  where the manual gives `COUNT(*)` the number of records (line 865), and a sort leaves
  the rows in the order of the scan (lines 887 to 891). The code marks all three as
  not implemented. `RowsAreTheColumns` is about SELECTs without these clauses.
- `HasAggregate`: an aggregate below an operator, or in HAVING or ORDER BY only,
  is not noticed (`logical_planner.cpp:231`), and HAVING without aggregation
  becomes a filter of single rows.

Other forms that are documented and refused, or read otherwise, met while
writing `Parser` (each is a line of the model; none has a run of its own):
`COUNT(*)` (the manual's line 989; arguments are expressions, and `*` begins
none), `DEFAULT 1 NOT NULL` (the comment at `parser.cpp:1642` says modifiers come
in any order; NOT after an operand must begin NOT IN, NOT BETWEEN or NOT LIKE),
`WITH (...)` of CREATE VINDEX without USING (the manual's lines 523 and 524),
`a LIKE s AND b` (the comment at `parser.cpp:1080` makes the right side an
additive expression; the pattern is `s AND b`), and `IN ()` and `[]`, which reach
the assertions of `in.cpp:26` and `vector.cpp:19` (`OnlyEmptyListsAbort` shows that
nothing else does). A second DEFAULT of a column replaces the first without a
word, which `NothingLost` exempts.

`SearchBetween` is checked for ordered bounds only: with the bounds swapped the
loop of `search_between` never meets its end (`b_tree_index.cpp`).

## 5. Proofs

`BinderProofs` proves, for every catalog, every set of expressions and
statements, and lists of every length, from the assumptions on the constants that
`Binder` names:

- `TypeCorrect`: `Spec => []TypeOK`;
- `ReferencesInScope`, `InsertsComplete`, `StatementsInCurrentDatabase`: the
  safety invariants `RefsInScope`, `InsertComplete`, `InCurrentDatabase`;
- `OnlyFailuresMove` and `BindingNeverResurrects`: the action properties
  `OnlyFailuresMoveCollection` and `BindsLive`. The second needs no invariant:
  whatever the context holds, a statement asks the catalog of the moment for each
  id that it returns.

The inductive invariant `IInv` is the conjunction of the type invariant, the
three safety invariants and one strengthening, `NameMatchesId`: the name of the
current database in the context is the name of its id. `InCurrentDatabase`
needs it, since USE sets both. The other conjuncts are about `result`, which
every handler makes afresh from the catalog, and so need only facts about what
the lookups return: a collection that resolves has the name that was asked for
and lives in the database it was asked in. The facts about INSERT are lemmas:
`PositionalItems` pairs the columns with the values one to one by counting
(the cardinality of the columns up to a column), and `ListedItems` by the names
of the list. The step lemmas follow the disjuncts of `Next`.

`ProtocolProofs` proves, for every number of clients, calls and connections,
every capacity and every size of packets, from `ProtocolAssumption` (request
packets are longer than the header; a connection has room for something; no
connection is called `NONE`) and `Codec`'s assumption on sizes:

- `TypeCorrect`: `Spec => []TypeOK`, with the capacities of the streams;
- `StuckClients` and `SessionsInOrder`: the action properties
  `StuckUntilReconnect` and `OvertakenOnlyIfAbandoned`;
- `CallsImplementRpc`: `Spec => ImplementsRpc`, the refinement.

The inductive invariant `IInv` says what the streams hold:

- `ClientInv`, `ServerInv`, `FreshInv`: a call needs a connection, which is open
  while its client is connected; the thread is busy with open sessions only;
  nothing is on connections that were not made.
- `OrderInv`: the units of requests between a client and the handler of its
  session (what the client has not written, the stream, the session's buffer) are
  packets in the order of their ids, all later than what was executed; and all of
  an earlier connection are earlier than those of a later one. Splits and joins
  of packets leave the concatenation alone. So what `try_decode_one` finds was
  never executed (`ExecutedIsNew`), which is "at most once" and "in order".
- `ReplyInv`: on the current connection of a client either nothing is on its way
  but the request of the call (`Requested`), or a part of the one response to
  the call (`Answered`), or the client cannot decode (`Stuck`) or receive
  (`Dead`) anything any more. The client never compares ids, so this is what
  makes the response it decodes the response to its call (`DecodedIsAnswer`).
  A response can be missed by its own call only when the call fails, and then
  the last two hold until the client connects again.

The proof first says of each action what it leaves as it was (the lemmas called
`...Effect`), so that the steps of the invariant need no definition of an
action; `Steps` sorts the disjuncts of `Next` by their effect on a call, and
`MapStep` maps them to the actions of `Rpc` or to stuttering.

`QueryProofs` proves, for every set of numbers of each type and every
conversion to double that `ComparisonsAssumption` allows:

- `OrderAlwaysAgrees`: equality and order, computed apart, agree, and both are
  symmetric;
- `OrderAlwaysChains`: the order is transitive, except where a 64-bit integer
  that no double holds meets floating point numbers.

Both are by cases on how a pair is compared: as values of one type, as integers,
or as doubles. `NarrowFacts` and `FloatingFacts` say that the only numbers which a
conversion changes are those of 64-bit integers.

It proves about `Queries`, for every set of expressions of any height and every statement,
condition and collection over them:

- `ScansAlwaysWhatItUses`: `Spec => []ScansWhatItUses`;
- `AlwaysMirrored`: `Spec => []PhysicalMirrors`;
- `RowsAlwaysTheColumns`: `Spec => []RowsAreTheColumns`;
- `ComparesAlwaysCoherently`: `Spec => []ComparesCoherently`.

Induction over trees is `LowestTree`: what does not hold of all expressions fails of one
whose parts it holds of, since the heights are naturals and a nonempty set of those has a
least one. With it, `RebuiltIsSame` shows that a tree which is built anew from its parts is
the tree, and so that `Clone` and `Copy` lose nothing. The nodes of an expression are
the least set that has it and the parts of all it has (`Below`), which is no
recursion, and the three functions that collect columns are shown to be the columns of
that set (`GatheredAreColumns`). These are finite, and a finite set can be sorted in one
way (`AscendingExists`).

The plan of a SELECT has up to five operators that are there or not. `PlanGrows`
adds one operator to any plan and says what the longer plan works with, so that no case
has to be told apart; `RowsGrow` and `RowsMaybe` do the same for the rows, and
`WindowFacts` is the arithmetic of LIMIT and OFFSET, numbers past the end included.
The inductive invariant `IInv` says that the logical plan is that of the request, the
physical plan that of the logical one, and the answer of a SELECT what the plan makes of the
entities. None of the properties is inductive without it: each speaks of what a step
two or three actions back has made.

It proves about `Lexer`, for every text in `Seq(STRING)`, every set of keywords and every
mixture of `peek` and `next`:

- `PositionsAlwaysTrue`: `LexerSpec => []PositionsTrue`;
- `LexemesAlwaysLongest`: `LexerSpec => []LongestLexemes`.

`AdvanceAt` says that `advance` counts lines and columns as `LineOf` and `ColumnOf` count
them from the text, so every cursor is `PlaceAt` of a position, and one that goes back over
an exponent that is none goes back to such a place. `LoopEnds` says of a loop with an
invariant set and a measure that falls with every step that it stops; `WhileAt`,
`DigitsRun` and `StringLoop` say where. The definitions of lexemes, which speak of sequences
cut out of the text, are rewritten once by places in the text (`NumberPlaces`, `WordPlaces`,
`OperatorPlaces`, `StringPlaces`), and the first character decides which of them a lexeme can
be (`Beginnings`). For strings, `EscapedNext` turns the parity of a run of backslashes into the
`escaped` flag of the loop, and `Open` says that no character up to the cursor has closed
or broken the string, the `\n` of an escaped `\r\n` included. Each `read_*` operator then has a
lemma that what it returns is right at its place and the longest (`ReadWordRight`,
`ReadNumberRight`, `ReadStringRight`, `ReadOperatorRight`), and `NextInternalRight` puts them
together. The inductive invariant `LexerInv` says that the tokens, returned or
peeked, are a chain from the first position to the cursor, each right by itself. The
bound on the tokens after the end (`MaxEnds`) is not used.

`CatalogProofs` proves, for all names, types and lists of fields
(`CatalogAssumption` says only that they are lists), and without the bound on the
size that the run has for its state space (`MaxSize` may be any number):

- `CatalogTyped`: `Spec => []TypeOK`, however stale the positions become;
- `IndexMapsAlwaysAgree`: `Spec => []IndexMapsAgree`;
- `OnlyShiftsEverMisplace`: the action property `OnlyShiftsMisplace`.

The inductive invariant `IInv` is one membership, `catalog \in Catalogs`: `Dir(S)`
are the directories with entries in `S`, and `Agreeing(C)` the collections with
columns in `C` of which the index maps agree, so that the type of a catalog says
what holds of all its collections, at whatever depth. A lemma about directories
(`AddedType`, `RemovedType`, `RenamedType`, `ReplacedType`) then serves at all
three levels, and `WithIndexAgrees` and its three siblings are about one
collection alone. `FieldsAgree` is inductive only as an equivalence: that an
emptied list is dropped needs that what a field lists are indexes on it, and the
other way round. `PlacedCatalogs` is the same set with placed directories, and
`StepKeepsPlaced` goes through the calls again with it; `RemovedPlaced` shows why
the last entry can go: no position is behind it.

`IndexProofs` proves, for every set of keys of one length (`KeysAssumption`), every
number of ids and listings (`MaxListed` may be any number), both kinds of index,
unique or not, and any mixture of NULLs and types in any field:

- `IndexesWellFormed`: `Spec => []WellFormed`;
- `SearchesAlwaysExact`: `Spec => []SearchesExact`;
- `IndexImplementsKeyedIds`: `Spec => ImplementsKeyedIds`, the refinement.

There is no hypothesis: what takes an order of the keys says so itself. It is that
a find is `Reliable`, in a hash index or in a tree with `Sortable` keys. This is where
the line is: with NULL in the last field alone, a key less than another is less than
all the other is less than (`LessChains`), though equality is not transitive, so a
descent comes upon a key if there is one, and a tree on one nullable column is
covered. With NULL in front of the last field the conclusions are false
(section 4, `Inserts`), and what is left is what an operation cannot touch: every listing of
another id or under a key that does not compare equal. The inductive invariant
`IsIndex` says that no entry lists nothing, and where a find is reliable that the
entries match in no two places, are in order, and list one id each in a unique
index; `Index` keeps it because each operation does. For the
refinement, an operation on the entries is an operation on the number of times that
an id is listed under a key: `IndexOpsProofs` counts the places of an id in a list
(`TimesOfAppend` and its siblings), and an `update` is one `Update` of `KeyedIds`: also
the one that is refused because the new key is taken, and has removed the id from
the old key.

`CollectionProofs` proves, for every number of fields, values, rows and indexes and
every bound, NULLs, values of mixed types and fields out of range included (what is
assumed of the values, that those of one type and rank are one value, only says that
the model writes a value in one way):

- `CollectionTyped`, `TablesAlwaysAgree`: `Spec => []TypeOK`, `Spec => []TablesAgree`;
- `RefusedCreatesLeaveNothing`, `OthersAlwaysStay`: the action properties
  `RefusedCreateLeavesNothing` and `OthersStay`;
- `UniqueAlwaysListsOne`: `Spec => []UniqueListsOne`, which is about hash indexes
  and trees on one field;
- `OneListingLostAtMost`, `SuccessAlwaysReaches`, `CreatedAlwaysListsRows`: the action
  properties `AtMostOneListingLost`, `SuccessReachesEveryIndex` and
  `CreatedIndexListsRows`.

What an operation may touch is a relation, `Touches`, between an index and what
becomes of it: the listings of other ids stay, the types and the kind too. It holds
of each operation whatever order the keys are in, since it holds wherever a descent
ends. The inductive invariant `Inv` joins the types and the agreement of the three
tables. What the loop over the indexes does is by induction on its calls; since the
library's induction cannot be used, `LoopKeeps` takes the first call after which
what is to be kept does not hold. `create_index` rolls back by name, and
`RefusedCreateLeavesNothing` holds because the name was not there before
(`DropPut`), which the agreement of the tables gives.

The last three theorems say what a loop of any length has done when it ends, so
they are about each call of it: after the first `i` calls, the indexes of those calls
have been reached and the others are as they were; or each loop but one that failed
has kept the count of the listings. `OneListingLostAtMost` needs no order of the tree;
the other two need that the keys are comparable, which the properties say themselves.
The attempt to prove `SuccessReachesEveryIndex` changed it. It excluded a NULL in the
key or the index at the time of the call, and that is not enough: keys such as
(0, 0, 0), (NULL, -1, 1) and (1, NULL, 0) compare in a cycle, so a tree that held NULLs can
have listed one key in two places, and once the NULLs are removed a removal reaches
one of the two. The property now requires that the index holds each key once, and
that the keys have values of the same types, NULL being a type.

That `UniqueListsOne` leaves out trees on several fields was found by the attempt to
prove it for them.
A unique tree on two fields with the keys (NULL, 1) and (0, 0) is out of order for
the key (-1, NULL), which is less than the second and equal to the first:
`BTreeIndex::insert` (`b_tree_index.cpp:35-52`) looks with `find` and inserts with
`emplace`, and the two may go different ways in the `std::map`, so that the check
for a taken key misses the entry that is then appended to. Section 4 has a tree in
which both miss it. On one field a tree holds
values of one type in strict order, or one entry (`Tight`), and find and emplace
agree; a hash index finds a key by its hash and `equals`, whatever else it holds
(`KeysOnce`).

`ExecutorProofs` proves, for all catalogs and without bounds, from nothing about
the constants:

- `ExecutorTyped`: `Spec => []TypeOK`;
- `IndexesAlwaysListOldest`: `Spec => []IndexesListOldest`;
- `FailuresNeverTake`: the action property `FailuresTakeNothing`;
- `OnlyAlterEverDiverges`: the action property `OnlyAlterDiverges`;
- `OnlyDropsEverMoveFields`: the action property `OnlyDropsMoveFields`.

Of the catalog, whose positions and own names may lead anywhere, the second and
third assume nothing. `NextSorted` sorts every handler by its effect on the databases
(`Effect`: a database, a collection or an index comes or goes, or a row is counted)
and by what it leaves when it fails (`Quiet`); the rest is about the effects. The
inductive invariant `IInv` says of each collection that its rows are below
`next_id` and that its indexes list the oldest rows (`IsStored`): a row that comes
is younger than all that are listed, and an index that comes lists all or none.

The types (`TInv`) need that a lookup which succeeds leads to an entry that is there,
stale or not (`LocatedPlaces`). `OnlyAlterDiverges` is about one database at a time:
`AgreesOn` says that the catalog lists what a database holds, and each statement
is shown to change one database on both sides, or to leave both (`AgreeTouched`,
`AgreeReentered`, `AgreeRelisted`). `OnlyDropsMoveFields` is about one collection at a
time: `Fits` says that names lead to entries (`Leads`), and entries are at the
index that they store (`InPlace`). The second was missing from the premises when
the proof began. It does not hold by itself: with two drops and four columns, an
entry can be away from its index while every name still leads to its own field,
and MODIFY then gives the name to another. The run's bounds hid that. The
property now has `IndexesPlaced` before and after the step.

Only model-checked:

- everything about `Parser`, `Formatter`, `Sentences` and `Statements`, whose operators are
  mutually recursive (a condition is made of operands that may be conditions): TLAPS
  reasons in no module that declares such operators;
- the liveness property `CallsEnd`: the prover has no ENABLED and no liveness under
  fairness.

## 6. Plan

1. `Binder` and its proofs. Done.
2. `IndexOps`, `KeyedIds`, `Index`, `Collection` and their proofs. Done.
3. `Codec`, `Rpc`, `Protocol` and their proofs. Done.
4. `Parser`, `Formatter`, `Sentences`, `Statements`. Done.
5. `CatalogOps`, `CatalogEntries`, `Executor` and their proofs. Done.
6. `Lexer` and its proofs. Done.
7. `Comparisons`, `Expressions`, `Plans`, `Queries` and their proofs. Done.

Not modelled, and not planned:

- `Timestamp` and the helpers in `query/`: no other code under `src/` uses them.
- The classes of data (`Field`, syntax trees, bound statements, plan nodes) but
  for what the modules above use of them, and the formatter of bound statements,
  which only prints.
- Functions (`function/`): the evaluator answers every call with an error. The
  conversion of the text of a literal in `evaluate_literal`.
- The comparison of values in the executor (`simple_compare_values`,
  `evaluate_condition_for_row`): only its filter calls it, on a path that is
  never taken.
- The checksum as arithmetic (in `Codec` it compares the body with the packet's),
  vector search (the repository has the metadata of vector indexes but no
  index), and memory.
