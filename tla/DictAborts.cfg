SPECIFICATION Spec
CONSTANTS
  Keys = {0}
  Hash <- MCHash
  WORD = 65536
  sizes <- FirstSizes
  NIL = NIL
  Values = {v1}
INVARIANTS NeverAborts
CHECK_DEADLOCK FALSE
