CONSTANTS
  a = a
  b = b
  c = c
  i = i
  j = j
  Names = {a, b, c}
  Types = {"VECTOR"}
  IndexNames = {i, j}
  FieldLists <- MCFieldLists
  MaxSize = 4
SPECIFICATION Spec
INVARIANTS
  TypeOK
  IndexMapsAgree
PROPERTIES
  OnlyShiftsMisplace
SYMMETRY MCSymmetry
CHECK_DEADLOCK FALSE
