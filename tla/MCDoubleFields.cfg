SPECIFICATION Spec
CONSTANTS
  Modes <- StdoutOnly
  ModuleCount = 2
  MaxTags = 1
  MaxOverdue = 1
  MaxKills = 0
INVARIANTS FieldsNeverOverlap
CHECK_DEADLOCK FALSE
