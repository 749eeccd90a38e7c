SPECIFICATION IterSpec
CONSTANTS
  Keys = {0, 33, 45}
  Hash <- MCHash
  WORD = 65536
  sizes <- MCSizes
  NIL = NIL
  Values = {NIL}
  do_values = FALSE
INVARIANTS SizeCounts QueryEnds AllReachable LoopComplete
PROPERTIES ImplementsMap
