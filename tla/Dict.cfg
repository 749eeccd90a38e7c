SPECIFICATION Spec
CONSTANTS
  Keys = {0, 3, 5, 11}
  Hash <- MCHash
  WORD = 65536
  sizes <- SmallSizes
  NIL = NIL
  Values = {v1, v2}
INVARIANTS OnceNeverAborts SizeCounts CopiesAgree ExpandEnds
PROPERTIES ImplementsMap
CHECK_DEADLOCK FALSE
