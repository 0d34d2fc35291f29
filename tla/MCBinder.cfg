CONSTANTS
  DatabaseIds = {1, 2}
  CollectionIds = {11, 21}
  DatabaseNames = {"A", "B"}
  CollectionNames = {"t"}
  ColumnNames = {"x", "y"}
  IndexNames = {"i"}
  DatabaseName <- MCDatabaseName
  Home <- MCHome
  CollectionName <- MCCollectionName
  Columns <- MCColumns
  Indexes <- MCIndexes
  VIndexes <- MCVIndexes
  Exprs <- MCExprs
  ColumnDefs <- MCColumnDefs
  WithOptions <- MCWithOptions
  MaxList = 2
  NONE = NONE
SPECIFICATION Spec
INVARIANTS
  TypeOK
  RefsInScope
  InsertComplete
  InCurrentDatabase
PROPERTIES
  BindsLive
  OnlyFailuresMoveCollection
