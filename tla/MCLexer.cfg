CONSTANTS
  Texts <- MCTexts
  Keywords <- MCKeywords
  AllLength = 2
  NumberLength = 6
  StringLength = 5
  LineLength = 4
SPECIFICATION LexerSpec
INVARIANTS
  PositionsTrue
  LongestLexemes
CHECK_DEADLOCK FALSE
