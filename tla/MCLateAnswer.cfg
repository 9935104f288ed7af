CONSTANTS
  Operations <- FewOperations
  Arguments = {"good"}
  MaxCalls = 2
  MaxTags = 1
  Capacity = 1
  ModuleErrors = {21}
  Late = TRUE
SPECIFICATION Spec
INVARIANT
  SuccessIsReal
CHECK_DEADLOCK FALSE
