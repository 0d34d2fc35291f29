CONSTANTS
  Identifiers = {"a"}
  StringLiterals = {"s"}
  FloatLiterals = {"f", "inf"}
  DoubleLiterals = {"f"}
  PrintedAs <- MCPrintedAs
  IntegerLiterals = {"1", "u", "huge"}
  UInt64Literals = {"1", "u"}
  Int64Literals = {"1"}
  Topics <- BetweenTopics
SPECIFICATION Spec
INVARIANT BetweenParses
CHECK_DEADLOCK FALSE
