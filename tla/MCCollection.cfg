CONSTANTS
  FieldCount = 1
  Values <- MCValues
  IndexNames = {"i", "j"}
  IndexMetas <- MCIndexMetas
  MaxId = 2
  MaxAssignments = 2
  MaxCount = 1
SPECIFICATION Spec
INVARIANTS
  TypeOK
  TablesAgree
  UniqueListsOne
PROPERTIES
  RefusedCreateLeavesNothing
  CreatedIndexListsRows
  OthersStay
  AtMostOneListingLost
  SuccessReachesEveryIndex
VIEW MCView
