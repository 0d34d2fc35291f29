CONSTANTS
  Names = {"a"}
  Mixed = {"OR", "AND", "!=", "-", "*"}
  MaxLength = 6
  Identifiers = {"a"}
  StringLiterals = {"s"}
  FloatLiterals = {"0.5", "1.0", "0.4999999", "inf"}
  DoubleLiterals = {"0.5", "1.0", "0.4999999"}
  PrintedAs <- MCPrintedAs
  IntegerLiterals = {"1", "u", "huge"}
  UInt64Literals = {"1", "u"}
  Int64Literals = {"1"}
SPECIFICATION Spec
INVARIANTS ParsesBack
CHECK_DEADLOCK FALSE
