CONSTANTS
  Klasses <- MCKlasses
  Parent <- MCParent
  NoKlass = "none"
  STACK_SIZE = 4
  MaxDepth = 4
  PlainFinally = TRUE
  ToS = FALSE
SPECIFICATION Spec
INVARIANTS TraceNamesCallers
PROPERTIES ImplementsTryCatch FinallyResumes
CHECK_DEADLOCK FALSE
