CONSTANTS
  Operations <- EachKind
  Arguments <- AllArguments
  MaxCalls = 2
  MaxTags = 1
  Capacity = 1
  ModuleErrors = {21}
  Late = TRUE
SPECIFICATION Spec
INVARIANTS
  TypeOK
  GettersKeepTheirKind
  FreshAnswers
  OwnAnswers
PROPERTY
  CallsReturn
CHECK_DEADLOCK FALSE
