CONSTANTS
  Klasses <- MCKlasses
  Parent <- MCParent
  NoKlass = "none"
  STACK_SIZE = 4
  MaxDepth = 4
  PlainFinally = FALSE
  ToS = FALSE
SPECIFICATION Spec
PROPERTIES FinallyResumes
CHECK_DEADLOCK FALSE
