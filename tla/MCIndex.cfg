CONSTANTS
  Keys <- MCLastNull
  Ids = {1, 2}
  MaxListed = 3
SPECIFICATION Spec
INVARIANTS
  WellFormed
  SearchesExact
PROPERTY ImplementsKeyedIds
