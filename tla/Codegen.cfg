SPECIFICATION Spec
CONSTANTS
  Vars = {x}
  Globals = {g}
  Self = x
  MaxDepth = 4
  MaxArgs = 2
INVARIANTS ScopesMatch CAccepts
CHECK_DEADLOCK FALSE
