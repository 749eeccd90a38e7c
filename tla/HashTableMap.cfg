SPECIFICATION IterSpec
CONSTANTS
  Keys = {0, 3, 5, 15}
  Hash <- MCHash
  WORD = 65536
  sizes <- MCSizes
  NIL = NIL
  Values = {v1, v2}
  do_values = TRUE
PROPERTIES ImplementsMap
