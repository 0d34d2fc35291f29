CONSTANTS
  Number <- MCNumber
  Double <- MCDouble
  Exact <- MCExact
  Trees <- MCTrees
  Height <- MCHeight
  Statements <- MCStatements
  Conditions <- MCConditions
  Collections <- MCCollections
SPECIFICATION Spec
INVARIANTS
  ScansWhatItUses
  PhysicalMirrors
  RowsAreTheColumns
  ComparesCoherently
CHECK_DEADLOCK FALSE
