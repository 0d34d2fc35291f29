CONSTANTS
  a = a
  b = b
  d = d
  e = e
  p = p
  q = q
  DatabaseNames = {d, e}
  DatabaseIds = {0, 1}
  CollectionNames = {a, b}
  CollectionIds = {p, q}
  ColumnNames = {"x", "y", "z"}
  Types = {"VECTOR"}
  Schemas <- MCSchemas
  IndexNames = {"i"}
  IndexedColumns <- MCIndexedColumns
  MaxSize = 7
  MaxRowId = 2
  MaxDrops = 1
SPECIFICATION Spec
INVARIANTS
  TypeOK
  IndexesListOldest
PROPERTIES
  FailuresTakeNothing
  OnlyAlterDiverges
  OnlyDropsMoveFields
VIEW MCView
SYMMETRY MCSymmetry
CHECK_DEADLOCK FALSE
