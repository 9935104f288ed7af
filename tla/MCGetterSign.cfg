CONSTANTS
  Operations <- EachKind
  Arguments = {"good"}
  MaxCalls = 1
  MaxTags = 1
  Capacity = 1
  ModuleErrors = {21}
  Late = FALSE
SPECIFICATION Spec
INVARIANT
  GetterErrorsAreNegative
CHECK_DEADLOCK FALSE
