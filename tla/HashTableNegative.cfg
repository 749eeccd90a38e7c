SPECIFICATION Spec
CONSTANTS
  Keys = {0, 2, 3, 8, 9, 11, 65535}
  Hash <- MCHash
  WORD = 65536
  sizes <- FirstSize
  NIL = NIL
  Values = {NIL}
  do_values = FALSE
INVARIANTS QueryEnds
