CONSTANTS
  Operations <- AllOperations
  Arguments <- AllArguments
  MaxCalls = 2
  MaxTags = 2
  Capacity = 1
  ModuleErrors = {21}
  Late = FALSE
SPECIFICATION Spec
PROPERTY
  ImplementsApi
CHECK_DEADLOCK FALSE
