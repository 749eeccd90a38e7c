SPECIFICATION Spec
CONSTANTS
  Classes = {A, B, C}
  Members = {x}
  NoName = NoName
  MaxItems = 6
  MaxMembers = 2
  MaxKin = 3
SYMMETRY Names
INVARIANTS Inherits OneWay Acyclic NoCrash StartupOrder
PROPERTIES TraceAdvances TypesSurvive
CHECK_DEADLOCK FALSE
