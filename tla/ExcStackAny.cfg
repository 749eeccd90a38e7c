CONSTANTS
  Klasses <- MCKlasses
  Parent <- MCParent
  NoKlass = "none"
  STACK_SIZE = 4
  MaxDepth = 4
  PlainFinally = FALSE
  ToS = TRUE
SPECIFICATION FairSpec
INVARIANTS TypeOK HandlersMirror PopsOwn
PROPERTIES FinallyRuns UnwindingEnds
CHECK_DEADLOCK FALSE
