CONSTANTS
  Identifiers = {"a"}
  StringLiterals = {"s"}
  FloatLiterals = {"f", "inf"}
  DoubleLiterals = {"f"}
  PrintedAs <- MCPrintedAs
  IntegerLiterals = {"1", "u", "huge"}
  UInt64Literals = {"1", "u"}
  Int64Literals = {"1"}
  Topics <- MCTopics
SPECIFICATION Spec
INVARIANTS NothingLost BindsByPrecedence OnlyEmptyListsAbort
CHECK_DEADLOCK FALSE
